---------------------------- MODULE Spec2Model ----------------------------
(* LayerCal: the layer-type registry (config/layerTypes), the memory       *)
(* estimator and the model state of the LayerCal component                 *)
(* (components/LayerCal.jsx), as a state machine.                          *)
(*                                                                         *)
(* Representation of JavaScript values:                                    *)
(*  - an integral number held in a configuration is an Int;                *)
(*  - a fractional field (rate, dropout) is held in tenths (0.1 is 1);     *)
(*  - a FLOPs count is a natural number of arbitrary size, written as a    *)
(*    little-endian sequence of base-1000 limbs without leading zeros      *)
(*    (JavaScript numbers are exact far beyond 32 bits, TLC integers are   *)
(*    not), so two counts are equal iff their limb sequences are equal;    *)
(*  - an omitted (undefined) argument is << >>, a supplied one is <<v>>;   *)
(*  - NaN is the record NaN, a number n the record Num(n).                 *)
EXTENDS Integers, Sequences, FiniteSets, TLC

VARIABLES modelLayers, draggedIndex, memoryMode, precision, language, isDarkMode,
          totalParams, totalFLOPs, memoryEstimate, breakdown, crashed,
          edits, probe, result

vars == <<modelLayers, draggedIndex, memoryMode, precision, language, isDarkMode,
          totalParams, totalFLOPs, memoryEstimate, breakdown, crashed,
          edits, probe, result>>

uiVars == <<modelLayers, draggedIndex, memoryMode, precision, language, isDarkMode,
            totalParams, totalFLOPs, memoryEstimate, breakdown, crashed,
            edits>>

(***************************************************************************)
(* Bounds of the exploration.                                              *)
(***************************************************************************)
\* longest model the user builds
MaxLayers == 2
\* number of configuration edits in one run
MaxEdits == 1
\* deepest recurrent stack probed in the registry
MaxNumLayers == 3

\* the longest model handed to the code generators
MaxCodeLayers == 3

(***************************************************************************)
(* Natural numbers of arbitrary size.                                      *)
(***************************************************************************)
Limb == 10 * 10 * 10

RECURSIVE Big(_)
Big(n) == IF n = 0 THEN << >> ELSE <<n % Limb>> \o Big(n \div Limb)

RECURSIVE BAddC(_, _, _)
BAddC(a, b, c) ==
  IF a = << >> /\ b = << >>
  THEN (IF c = 0 THEN << >> ELSE <<c>>)
  ELSE LET x == IF a = << >> THEN 0 ELSE Head(a)
           y == IF b = << >> THEN 0 ELSE Head(b)
           s == x + y + c
       IN  <<s % Limb>> \o BAddC(IF a = << >> THEN << >> ELSE Tail(a),
                                 IF b = << >> THEN << >> ELSE Tail(b),
                                 s \div Limb)

BAdd(a, b) == BAddC(a, b, 0)

RECURSIVE BScaleC(_, _, _)
BScaleC(a, k, c) ==
  IF a = << >>
  THEN Big(c)
  ELSE LET s == Head(a) * k + c
       IN  <<s % Limb>> \o BScaleC(Tail(a), k, s \div Limb)

\* a * k for a small k >= 0 (a dimension, a length or a small constant)
BScale(a, k) == IF k = 0 THEN << >> ELSE BScaleC(a, k, 0)

\* x1 * x2 * ... * xn, multiplied left to right
RECURSIVE ProdFrom(_, _, _)
ProdFrom(acc, xs, i) ==
  IF i > Len(xs) THEN acc ELSE ProdFrom(BScale(acc, xs[i]), xs, i + 1)

Prod(xs) == ProdFrom(<<1>>, xs, 1)

Max(a, b) == IF a >= b THEN a ELSE b

\* a default parameter value: used when the argument is omitted
Arg(a, dflt) == IF a = << >> THEN dflt ELSE a[1]

(***************************************************************************)
(* The registry: getLayerTypes(t, isDarkMode).  Only defaultParams,        *)
(* fields, calculate and calculateFLOPs are modelled; name, icon, color    *)
(* and description are display strings.                                    *)
(***************************************************************************)
LayerKinds ==
  <<"embedding", "linear", "conv2d", "lstm", "transformer", "batchnorm",
    "dropout", "maxpool2d", "avgpool2d", "layernorm", "gru", "attention",
    "relu", "softmax">>

KindSet == {LayerKinds[i] : i \in 1..Len(LayerKinds)}

defaultParams(type) ==
  CASE type = "embedding"   -> [vocab_size |-> 10000, embedding_dim |-> 128]
    [] type = "linear"      -> [input_dim |-> 512, output_dim |-> 256, use_bias |-> TRUE]
    [] type = "conv2d"      -> [in_channels |-> 3, out_channels |-> 64, kernel_size |-> 3,
                                use_bias |-> TRUE]
    [] type = "lstm"        -> [input_size |-> 128, hidden_size |-> 256, num_layers |-> 1,
                                bidirectional |-> FALSE]
    [] type = "transformer" -> [d_model |-> 512, num_heads |-> 8, d_ff |-> 2048, dropout |-> 1]
    [] type = "batchnorm"   -> [num_features |-> 128]
    [] type = "dropout"     -> [rate |-> 1]
    [] type = "maxpool2d"   -> [kernel_size |-> 2]
    [] type = "avgpool2d"   -> [kernel_size |-> 2]
    [] type = "layernorm"   -> [normalized_shape |-> 512]
    [] type = "gru"         -> [input_size |-> 128, hidden_size |-> 256, num_layers |-> 1,
                                bidirectional |-> FALSE]
    [] type = "attention"   -> [d_model |-> 512, num_heads |-> 8]
    [] type = "relu"        -> << >>
    [] type = "softmax"     -> << >>

Field(k, t, o) == [key |-> k, type |-> t, options |-> o]

fields(type) ==
  CASE type = "embedding"   ->
         <<Field("vocab_size", "number", <<5000, 10000, 30000, 50000>>),
           Field("embedding_dim", "select", <<64, 128, 256, 512, 768, 1024>>)>>
    [] type = "linear"      ->
         <<Field("input_dim", "select", <<64, 128, 256, 512, 768, 1024, 2048>>),
           Field("output_dim", "select", <<64, 128, 256, 512, 768, 1024, 2048>>),
           Field("use_bias", "checkbox", << >>)>>
    [] type = "conv2d"      ->
         <<Field("in_channels", "select", <<1, 3, 16, 32, 64, 128, 256>>),
           Field("out_channels", "select", <<16, 32, 64, 128, 256, 512>>),
           Field("kernel_size", "select", <<1, 3, 5, 7>>),
           Field("use_bias", "checkbox", << >>)>>
    [] type = "lstm"        ->
         <<Field("input_size", "select", <<64, 128, 256, 512, 768>>),
           Field("hidden_size", "select", <<128, 256, 512, 768, 1024>>),
           Field("num_layers", "select", <<1, 2, 3, 4>>),
           Field("bidirectional", "checkbox", << >>)>>
    [] type = "transformer" ->
         <<Field("d_model", "select", <<256, 512, 768, 1024>>),
           Field("num_heads", "select", <<4, 8, 12, 16>>),
           Field("d_ff", "select", <<1024, 2048, 3072, 4096>>)>>
    [] type = "batchnorm"   ->
         <<Field("num_features", "select", <<64, 128, 256, 512, 768, 1024>>)>>
    [] type = "dropout"     ->
         <<Field("rate", "number", << >>)>>
    [] type = "maxpool2d"   ->
         <<Field("kernel_size", "select", <<2, 3, 4>>)>>
    [] type = "avgpool2d"   ->
         <<Field("kernel_size", "select", <<2, 3, 4>>)>>
    [] type = "layernorm"   ->
         <<Field("normalized_shape", "select", <<128, 256, 512, 768, 1024>>)>>
    [] type = "gru"         ->
         <<Field("input_size", "select", <<64, 128, 256, 512, 768>>),
           Field("hidden_size", "select", <<128, 256, 512, 768, 1024>>),
           Field("num_layers", "select", <<1, 2, 3, 4>>),
           Field("bidirectional", "checkbox", << >>)>>
    [] type = "attention"   ->
         <<Field("d_model", "select", <<256, 512, 768, 1024>>),
           Field("num_heads", "select", <<4, 8, 12, 16>>)>>
    [] type = "relu"        -> << >>
    [] type = "softmax"     -> << >>

\* the keys a kind's schema declares
SchemaKeys(type) == {fields(type)[i].key : i \in 1..Len(fields(type))}

\* the languages of the language menu
Languages == {"en", "ko"}

\* TRANSLATIONS[language]: the strings of a language, per kind
TRANSLATIONS(lang) ==
  [type \in KindSet |-> [name |-> <<lang, type, "name">>,
                         description |-> <<lang, type, "description">>]]

\* the colour classes of a kind's card, dark or light
Color(type, dark) == <<type, IF dark THEN "dark" ELSE "light">>

\* a registry whose transformer is created with a dropout that follows the theme
getLayerTypes_themedDefaults(t, dark) ==
  [type \in KindSet |->
     [name          |-> t[type].name,
      color         |-> Color(type, dark),
      defaultParams |-> IF type = "transformer" /\ dark
                        THEN [defaultParams(type) EXCEPT !.dropout = 2]
                        ELSE defaultParams(type),
      fields        |-> fields(type),
      description   |-> t[type].description]]

\* getLayerTypes(t, isDarkMode): the descriptors; calculate and calculateFLOPs
\* of a descriptor are the operators of the next sections
getLayerTypes(t, dark) ==
  [type \in KindSet |->
     [name          |-> t[type].name,
      color         |-> Color(type, dark),
      defaultParams |-> defaultParams(type),
      fields        |-> fields(type),
      description   |-> t[type].description]]

\* const LAYER_TYPES = useMemo(() => getLayerTypes(t, isDarkMode), [t, isDarkMode])
LAYER_TYPES == getLayerTypes(TRANSLATIONS(language), isDarkMode)

(***************************************************************************)
(* calculate: the parameter count of one layer.                            *)
(***************************************************************************)
\* an embedding that keeps two reserved rows out of the count
embedding_calculate_reservedRows(params) == (params.vocab_size - 2) * params.embedding_dim

embedding_calculate(params) == params.vocab_size * params.embedding_dim

linear_calculate(params) ==
  params.input_dim * params.output_dim
    + (IF params.use_bias THEN params.output_dim ELSE 0)

\* a convolution counted with a one-dimensional kernel
conv2d_calculate_kernelOnce(params) ==
  params.in_channels * params.out_channels * params.kernel_size
  + (IF params.use_bias THEN params.out_channels ELSE 0)

conv2d_calculate(params) ==
  params.in_channels * params.out_channels * params.kernel_size * params.kernel_size
    + (IF params.use_bias THEN params.out_channels ELSE 0)

\* lstm.calculate with every stacked layer fed H inputs, the direction forgotten
RECURSIVE lstm_calculate_for_flatInput(_, _, _)
lstm_calculate_for_flatInput(params, layer, total) ==
  IF ~(layer < params.num_layers)
  THEN total
  ELSE LET direction == IF params.bidirectional THEN 2 ELSE 1
           input_dim == IF layer = 0 THEN params.input_size ELSE params.hidden_size
           params_per_direction ==
             4 * (input_dim * params.hidden_size
                  + params.hidden_size * params.hidden_size
                  + params.hidden_size * 2)
       IN  lstm_calculate_for_flatInput(params, layer + 1,
                                        total + params_per_direction * direction)

\* the for loop of lstm.calculate, from iteration `layer` with running `total`
RECURSIVE lstm_calculate_for(_, _, _)
lstm_calculate_for(params, layer, total) ==
  IF ~(layer < params.num_layers)
  THEN total
  ELSE LET direction == IF params.bidirectional THEN 2 ELSE 1
           input_dim == IF layer = 0 THEN params.input_size
                                     ELSE params.hidden_size * direction
           params_per_direction ==
             4 * (input_dim * params.hidden_size
                  + params.hidden_size * params.hidden_size
                  + params.hidden_size * 2)
       IN  lstm_calculate_for(params, layer + 1, total + params_per_direction * direction)

lstm_calculate(params) == lstm_calculate_for(params, 0, 0)

\* a transformer block counted with a single LayerNorm
transformer_calculate_oneLayerNorm(params) ==
  LET mha == 4 * (params.d_model * params.d_model + params.d_model)
      ffn == params.d_model * params.d_ff + params.d_ff
             + params.d_ff * params.d_model + params.d_model
      ln  == 2 * params.d_model
  IN  mha + ffn + ln

transformer_calculate(params) ==
  LET mha == 4 * (params.d_model * params.d_model + params.d_model)
      ffn == params.d_model * params.d_ff + params.d_ff
               + params.d_ff * params.d_model + params.d_model
      ln  == 2 * (params.d_model * 2)
  IN  mha + ffn + ln

batchnorm_calculate(params) == params.num_features * 2

dropout_calculate(params) == 0

maxpool2d_calculate(params) == 0

avgpool2d_calculate(params) == 0

layernorm_calculate(params) == params.normalized_shape * 2

\* gru.calculate copied from the LSTM with its four gates
RECURSIVE gru_calculate_for_fourGates(_, _, _)
gru_calculate_for_fourGates(params, layer, total) ==
  IF ~(layer < params.num_layers)
  THEN total
  ELSE LET direction == IF params.bidirectional THEN 2 ELSE 1
           input_dim == IF layer = 0 THEN params.input_size
                                     ELSE params.hidden_size * direction
           params_per_direction ==
             4 * (input_dim * params.hidden_size
                  + params.hidden_size * params.hidden_size
                  + params.hidden_size * 2)
       IN  gru_calculate_for_fourGates(params, layer + 1,
                                       total + params_per_direction * direction)

\* the for loop of gru.calculate
RECURSIVE gru_calculate_for(_, _, _)
gru_calculate_for(params, layer, total) ==
  IF ~(layer < params.num_layers)
  THEN total
  ELSE LET direction == IF params.bidirectional THEN 2 ELSE 1
           input_dim == IF layer = 0 THEN params.input_size
                                     ELSE params.hidden_size * direction
           params_per_direction ==
             3 * (input_dim * params.hidden_size
                  + params.hidden_size * params.hidden_size
                  + params.hidden_size * 2)
       IN  gru_calculate_for(params, layer + 1, total + params_per_direction * direction)

gru_calculate(params) == gru_calculate_for(params, 0, 0)

attention_calculate(params) ==
  4 * (params.d_model * params.d_model + params.d_model)

relu_calculate(params) == 0

softmax_calculate(params) == 0

\* LAYER_TYPES[type].calculate(params)
calculate(type, params) ==
  CASE type = "embedding"   -> embedding_calculate(params)
    [] type = "linear"      -> linear_calculate(params)
    [] type = "conv2d"      -> conv2d_calculate(params)
    [] type = "lstm"        -> lstm_calculate(params)
    [] type = "transformer" -> transformer_calculate(params)
    [] type = "batchnorm"   -> batchnorm_calculate(params)
    [] type = "dropout"     -> dropout_calculate(params)
    [] type = "maxpool2d"   -> maxpool2d_calculate(params)
    [] type = "avgpool2d"   -> avgpool2d_calculate(params)
    [] type = "layernorm"   -> layernorm_calculate(params)
    [] type = "gru"         -> gru_calculate(params)
    [] type = "attention"   -> attention_calculate(params)
    [] type = "relu"        -> relu_calculate(params)
    [] type = "softmax"     -> softmax_calculate(params)

(***************************************************************************)
(* calculateFLOPs: the FLOPs of one layer.  a1 and a2 are the optional     *)
(* arguments after params, << >> when omitted.                             *)
(***************************************************************************)
embedding_calculateFLOPs(params) == Big(0)

\* linear FLOPs that count the additions of the bias
linear_calculateFLOPs_withBias(params) ==
  BAdd(Prod(<<2, params.input_dim, params.output_dim>>),
       Big(IF params.use_bias THEN params.output_dim ELSE 0))

linear_calculateFLOPs(params) == Prod(<<2, params.input_dim, params.output_dim>>)

\* conv2d.calculateFLOPs with a 256 x 256 default input
conv2d_calculateFLOPs_default256(params, a1) ==
  LET inputSize  == Arg(a1, 256)
      outputSize == inputSize
  IN  Prod(<<2, params.in_channels, params.out_channels, params.kernel_size,
             params.kernel_size, outputSize, outputSize>>)

conv2d_calculateFLOPs(params, a1) ==
  LET inputSize  == Arg(a1, 224)
      outputSize == inputSize
  IN  Prod(<<2, params.in_channels, params.out_channels, params.kernel_size,
             params.kernel_size, outputSize, outputSize>>)

\* lstm.calculateFLOPs that counts one direction only
RECURSIVE lstm_calculateFLOPs_for_oneDirection(_, _, _, _)
lstm_calculateFLOPs_for_oneDirection(params, seqLen, layer, total) ==
  IF ~(layer < params.num_layers)
  THEN total
  ELSE LET direction == IF params.bidirectional THEN 2 ELSE 1
           input_dim == IF layer = 0 THEN params.input_size
                                     ELSE params.hidden_size * direction
           flops_per_step ==
             BScale(BAdd(Prod(<<input_dim, params.hidden_size>>),
                         Prod(<<params.hidden_size, params.hidden_size>>)),
                    4 * 2)
       IN  lstm_calculateFLOPs_for_oneDirection(params, seqLen, layer + 1,
             BAdd(total, BScale(flops_per_step, seqLen)))

RECURSIVE lstm_calculateFLOPs_for(_, _, _, _)
lstm_calculateFLOPs_for(params, seqLen, layer, total) ==
  IF ~(layer < params.num_layers)
  THEN total
  ELSE LET direction == IF params.bidirectional THEN 2 ELSE 1
           input_dim == IF layer = 0 THEN params.input_size
                                     ELSE params.hidden_size * direction
           flops_per_step ==
             BScale(BAdd(Prod(<<input_dim, params.hidden_size>>),
                         Prod(<<params.hidden_size, params.hidden_size>>)),
                    4 * 2)
       IN  lstm_calculateFLOPs_for(params, seqLen, layer + 1,
             BAdd(total, BScale(BScale(flops_per_step, seqLen), direction)))

lstm_calculateFLOPs(params, a1) ==
  lstm_calculateFLOPs_for(params, Arg(a1, 128), 0, Big(0))

\* transformer FLOPs that count only the first matrix product of the FFN
transformer_calculateFLOPs_halfFfn(params, a1) ==
  LET seqLen     == Arg(a1, 512)
      qkvProj    == Prod(<<3, 2, seqLen, params.d_model, params.d_model>>)
      attnScores == Prod(<<2, seqLen, seqLen, params.d_model>>)
      attnOutput == Prod(<<2, seqLen, params.d_model, params.d_model>>)
      ffn        == BScale(Prod(<<2, params.d_model, params.d_ff>>), seqLen)
  IN  BAdd(BAdd(BAdd(qkvProj, attnScores), attnOutput), ffn)

transformer_calculateFLOPs(params, a1) ==
  LET seqLen     == Arg(a1, 512)
      qkvProj    == Prod(<<3, 2, seqLen, params.d_model, params.d_model>>)
      attnScores == Prod(<<2, seqLen, seqLen, params.d_model>>)
      attnOutput == Prod(<<2, seqLen, params.d_model, params.d_model>>)
      ffn        == BScale(BAdd(Prod(<<2, params.d_model, params.d_ff>>),
                                Prod(<<2, params.d_ff, params.d_model>>)),
                           seqLen)
  IN  BAdd(BAdd(BAdd(qkvProj, attnScores), attnOutput), ffn)

\* batch normalization counted with the five operations of layer normalization
batchnorm_calculateFLOPs_fiveOps(params, a1, a2) ==
  LET batchSize   == Arg(a1, 32)
      spatialSize == Arg(a2, 1)
  IN  Prod(<<params.num_features, batchSize, spatialSize, 5>>)

batchnorm_calculateFLOPs(params, a1, a2) ==
  LET batchSize   == Arg(a1, 32)
      spatialSize == Arg(a2, 1)
  IN  Prod(<<params.num_features, batchSize, spatialSize, 4>>)

\* a dropout that counts one operation for drawing its mask
dropout_calculateFLOPs_maskDraw(params) == Big(1)

dropout_calculateFLOPs(params) == Big(0)

maxpool2d_calculateFLOPs(params, a1, a2) ==
  LET channels   == Arg(a1, 64)
      inputSize  == Arg(a2, 224)
      outputSize == inputSize \div params.kernel_size
  IN  Prod(<<channels, outputSize, outputSize, params.kernel_size, params.kernel_size>>)

\* average pooling that also counts one division per output element
avgpool2d_calculateFLOPs_plusDivide(params, a1, a2) ==
  LET channels   == Arg(a1, 64)
      inputSize  == Arg(a2, 224)
      outputSize == inputSize \div params.kernel_size
  IN  BAdd(Prod(<<channels, outputSize, outputSize, params.kernel_size, params.kernel_size>>),
           Prod(<<channels, outputSize, outputSize>>))

avgpool2d_calculateFLOPs(params, a1, a2) ==
  LET channels   == Arg(a1, 64)
      inputSize  == Arg(a2, 224)
      outputSize == inputSize \div params.kernel_size
  IN  Prod(<<channels, outputSize, outputSize, params.kernel_size, params.kernel_size>>)

layernorm_calculateFLOPs(params, a1, a2) ==
  LET batchSize == Arg(a1, 32)
      seqLen    == Arg(a2, 512)
  IN  Prod(<<params.normalized_shape, batchSize, seqLen, 5>>)

\* gru.calculateFLOPs that unrolls only the first layer over the sequence
RECURSIVE gru_calculateFLOPs_for_firstLayerOnly(_, _, _, _)
gru_calculateFLOPs_for_firstLayerOnly(params, seqLen, layer, total) ==
  IF ~(layer < params.num_layers)
  THEN total
  ELSE LET direction == IF params.bidirectional THEN 2 ELSE 1
           input_dim == IF layer = 0 THEN params.input_size
                                     ELSE params.hidden_size * direction
           flops_per_step ==
             BScale(BAdd(Prod(<<input_dim, params.hidden_size>>),
                         Prod(<<params.hidden_size, params.hidden_size>>)),
                    3 * 2)
       IN  gru_calculateFLOPs_for_firstLayerOnly(params, seqLen, layer + 1,
             BAdd(total, BScale(BScale(flops_per_step, IF layer = 0 THEN seqLen ELSE 1),
                                direction)))

RECURSIVE gru_calculateFLOPs_for(_, _, _, _)
gru_calculateFLOPs_for(params, seqLen, layer, total) ==
  IF ~(layer < params.num_layers)
  THEN total
  ELSE LET direction == IF params.bidirectional THEN 2 ELSE 1
           input_dim == IF layer = 0 THEN params.input_size
                                     ELSE params.hidden_size * direction
           flops_per_step ==
             BScale(BAdd(Prod(<<input_dim, params.hidden_size>>),
                         Prod(<<params.hidden_size, params.hidden_size>>)),
                    3 * 2)
       IN  gru_calculateFLOPs_for(params, seqLen, layer + 1,
             BAdd(total, BScale(BScale(flops_per_step, seqLen), direction)))

gru_calculateFLOPs(params, a1) ==
  gru_calculateFLOPs_for(params, Arg(a1, 128), 0, Big(0))

attention_calculateFLOPs(params, a1) ==
  LET seqLen     == Arg(a1, 512)
      qkvProj    == Prod(<<3, 2, seqLen, params.d_model, params.d_model>>)
      attnScores == Prod(<<2, seqLen, seqLen, params.d_model>>)
      attnOutput == Prod(<<2, seqLen, params.d_model, params.d_model>>)
  IN  BAdd(BAdd(qkvProj, attnScores), attnOutput)

relu_calculateFLOPs(params) == Big(0)

softmax_calculateFLOPs(params) == Big(0)

\* LAYER_TYPES[type].calculateFLOPs(params, a1, a2)
calculateFLOPs(type, params, a1, a2) ==
  CASE type = "embedding"   -> embedding_calculateFLOPs(params)
    [] type = "linear"      -> linear_calculateFLOPs(params)
    [] type = "conv2d"      -> conv2d_calculateFLOPs(params, a1)
    [] type = "lstm"        -> lstm_calculateFLOPs(params, a1)
    [] type = "transformer" -> transformer_calculateFLOPs(params, a1)
    [] type = "batchnorm"   -> batchnorm_calculateFLOPs(params, a1, a2)
    [] type = "dropout"     -> dropout_calculateFLOPs(params)
    [] type = "maxpool2d"   -> maxpool2d_calculateFLOPs(params, a1, a2)
    [] type = "avgpool2d"   -> avgpool2d_calculateFLOPs(params, a1, a2)
    [] type = "layernorm"   -> layernorm_calculateFLOPs(params, a1, a2)
    [] type = "gru"         -> gru_calculateFLOPs(params, a1)
    [] type = "attention"   -> attention_calculateFLOPs(params, a1)
    [] type = "relu"        -> relu_calculateFLOPs(params)
    [] type = "softmax"     -> softmax_calculateFLOPs(params)

(***************************************************************************)
(* calculateMemory(totalParams, mode, precision).                          *)
(***************************************************************************)
NaN == [nan |-> TRUE, n |-> 0]

Num(n) == [nan |-> FALSE, n |-> n]

\* the own properties of the literal bytesPerParam
bytesPerParam == [fp32 |-> 4, fp16 |-> 2, bf16 |-> 2, int8 |-> 1]

\* the properties every object literal inherits from Object.prototype
ObjectPrototypeKeys ==
  {"constructor", "toString", "toLocaleString", "valueOf", "hasOwnProperty",
   "isPrototypeOf", "propertyIsEnumerable", "__proto__"}

\* bytesPerParam[precision] || 4 : an own property is a non-zero number, an
\* inherited one is a function or an object (truthy, not a number), any
\* other key reads undefined and falls back to 4
LookupBytes(prec) ==
  IF prec \in DOMAIN bytesPerParam THEN Num(bytesPerParam[prec])
  ELSE IF prec \in ObjectPrototypeKeys THEN NaN
  ELSE Num(4)

\* calculateMemory that counts one optimizer moment instead of two
calculateMemory_oneMoment(total, mode, prec) ==
  LET bytes == LookupBytes(prec)
  IN  IF bytes.nan THEN NaN
      ELSE IF mode = "inference" THEN Num(total * bytes.n)
      ELSE Num(total * bytes.n * 3)

calculateMemory(total, mode, prec) ==
  LET bytes == LookupBytes(prec)
  IN  IF bytes.nan THEN NaN
      ELSE IF mode = "inference" THEN Num(total * bytes.n)
      ELSE Num(total * bytes.n * 4)

(***************************************************************************)
(* The LayerCal component: its state and its event handlers.               *)
(***************************************************************************)
\* the kinds the user clicks in the palette
Palette == {"embedding", "transformer", "dropout"}

\* the values Date.now() + Math.random() takes
Ids == {1, 2}

\* the options of a select the user picks (positions in the options list)
OfferedIdx == {1}

\* what the user types into a number input, in tenths
NumberInputs == {0 - 5, 25}

JSNumber(tenths) == [type |-> "number", v |-> tenths]

JSBoolean(b) == [type |-> "boolean", v |-> b]

\* the values the control of one schema field hands to updateLayerParam when
\* its change event fires: Number(e.target.value) of a select or number
\* input, e.target.checked of a checkbox.  A change event carries a value
\* other than the one the control displays (current).
FieldInputs(field, current) ==
  CASE field.type = "select" ->
         {JSNumber(10 * field.options[k]) :
            k \in {j \in OfferedIdx \cap (1..Len(field.options)) :
                     field.options[j] # current}}
    [] field.type = "checkbox" -> {JSBoolean(~current)}
    [] OTHER ->
         {JSNumber(n) :
            n \in {m \in NumberInputs :
                     m # (IF field.key = "rate" THEN current ELSE 10 * current)}}

\* an array slot that holds undefined
Undefined == [id |-> 0, type |-> "undefined", params |-> << >>]

IsUndefined(layer) == layer.type = "undefined"

\* arr[i], i counted from 0
At(arr, i) == IF i < Len(arr) THEN arr[i + 1] ELSE Undefined

\* splice that inserts without deleting
Splice_insertOnly(arr, start, deleteCount, items) ==
  LET s == IF start > Len(arr) THEN Len(arr) ELSE start
  IN  SubSeq(arr, 1, s) \o items \o SubSeq(arr, s + 1, Len(arr))

\* Array.prototype.splice(start, deleteCount, ...items), as a new array
Splice(arr, start, deleteCount, items) ==
  LET s == IF start > Len(arr) THEN Len(arr) ELSE start
      d == IF deleteCount > Len(arr) - s THEN Len(arr) - s ELSE deleteCount
  IN  SubSeq(arr, 1, s) \o items \o SubSeq(arr, s + d + 1, Len(arr))

\* a reduce that leaves the first layer out of the total
RECURSIVE ReduceParams_noInitial(_, _, _)
ReduceParams_noInitial(layers, i, total) ==
  IF i > Len(layers) THEN total
  ELSE ReduceParams_noInitial(layers, i + 1,
         IF i = 1 THEN total
         ELSE total + calculate(layers[i].type, layers[i].params))

\* modelLayers.reduce((total, layer) => total + calculate(layer.params), 0)
RECURSIVE ReduceParams(_, _, _)
ReduceParams(layers, i, total) ==
  IF i > Len(layers) THEN total
  ELSE ReduceParams(layers, i + 1,
                    total + calculate(layers[i].type, layers[i].params))

\* modelLayers.reduce((total, layer) => total + calculateFLOPs(layer.params), 0)
RECURSIVE ReduceFLOPs(_, _, _)
ReduceFLOPs(layers, i, total) ==
  IF i > Len(layers) THEN total
  ELSE ReduceFLOPs(layers, i + 1,
         BAdd(total, calculateFLOPs(layers[i].type, layers[i].params, << >>, << >>)))

\* ((layerParams / total) * 100).toFixed(1), in tenths of a percent: the
\* decimal digits by long division, rounded to the nearest tenth.  On an
\* exact tie the double that the division produced decides the direction.
toFixed1(layerParams, total) ==
  LET x1 == 10 * layerParams
      x2 == 10 * (x1 % total)
      x3 == 10 * (x2 % total)
      q  == 100 * (x1 \div total) + 10 * (x2 \div total) + (x3 \div total)
      r  == x3 % total
  IN  IF 2 * r > total THEN {q + 1}
      ELSE IF 2 * r = total THEN {q, q + 1}
      ELSE {q}

\* the percentage column: totalParams > 0 ? toFixed(1) : '0.0'
Percentage(layer, total) ==
  IF total > 0 THEN toFixed1(calculate(layer.type, layer.params), total)
  ELSE {0}

\* modelLayers.map(layer => <div key={layer.id}> ... {percentage}% </div>)
RECURSIVE LayerDistribution(_, _)
LayerDistribution(layers, total) ==
  IF layers = << >> THEN {<< >>}
  ELSE {<<[key |-> Head(layers).id, type |-> Head(layers).type, percentage |-> p]>> \o rest :
          p \in Percentage(Head(layers), total),
          rest \in LayerDistribution(Tail(layers), total)}

\* One render of the component after the state became `layers`: the memoized
\* totals are recomputed because modelLayers is a new array.  Reading
\* layer.type of an undefined slot throws and the component is torn down.
Render(layers) ==
  IF \E i \in 1..Len(layers) : IsUndefined(layers[i])
  THEN /\ crashed' = TRUE
       /\ UNCHANGED <<totalParams, totalFLOPs, memoryEstimate, breakdown>>
  ELSE /\ crashed' = FALSE
       /\ totalParams' = ReduceParams(layers, 1, 0)
       /\ totalFLOPs' = ReduceFLOPs(layers, 1, Big(0))
       /\ memoryEstimate' = calculateMemory(totalParams', memoryMode, precision)
       /\ breakdown' \in LayerDistribution(layers, totalParams')

addLayer(type, id) ==
  /\ ~crashed
  /\ Len(modelLayers) < MaxLayers
  /\ LET layerConfig == LAYER_TYPES[type]
         newLayer    == [id |-> id, type |-> type, params |-> layerConfig.defaultParams]
     IN  modelLayers' = Append(modelLayers, newLayer)
  /\ Render(modelLayers')
  /\ UNCHANGED <<draggedIndex, memoryMode, precision, language, isDarkMode, edits, probe, result>>

deleteLayer(id) ==
  /\ ~crashed
  /\ modelLayers' = SelectSeq(modelLayers, LAMBDA layer : layer.id # id)
  /\ Render(modelLayers')
  /\ UNCHANGED <<draggedIndex, memoryMode, precision, language, isDarkMode, edits, probe, result>>

\* a rounding to the nearest integer, halves upwards, in place of Math.floor
Floor_round(tenths) == (tenths + 5) \div 10

\* Math.floor of a number given in tenths
Floor(tenths) == tenths \div 10

updateLayerParam(id, paramKey, value) ==
  /\ ~crashed
  /\ edits < MaxEdits
  /\ LET validatedValue ==
           IF value.type = "number" /\ paramKey # "rate"
           THEN Max(1, Floor(value.v))
           ELSE value.v
     IN  modelLayers' =
           [i \in 1..Len(modelLayers) |->
              IF modelLayers[i].id # id THEN modelLayers[i]
              ELSE [modelLayers[i] EXCEPT
                      !.params = (paramKey :> validatedValue) @@ modelLayers[i].params]]
  /\ Render(modelLayers')
  /\ edits' = edits + 1
  /\ UNCHANGED <<draggedIndex, memoryMode, precision, language, isDarkMode, probe, result>>

\* setLanguage(newLang); LAYER_TYPES is rebuilt and the memoized totals with it
handleLanguageChange(newLang) ==
  /\ ~crashed
  /\ language' = newLang
  /\ Render(modelLayers)
  /\ UNCHANGED <<modelLayers, draggedIndex, memoryMode, precision, isDarkMode,
                 edits, probe, result>>

\* setIsDarkMode(prev => !prev)
handleDarkModeToggle ==
  /\ ~crashed
  /\ isDarkMode' = ~isDarkMode
  /\ Render(modelLayers)
  /\ UNCHANGED <<modelLayers, draggedIndex, memoryMode, precision, language,
                 edits, probe, result>>

handleLayerDragStart(index) ==
  /\ ~crashed
  /\ draggedIndex' = <<index>>
  /\ UNCHANGED <<modelLayers, memoryMode, precision, language, isDarkMode, totalParams, totalFLOPs,
                 memoryEstimate, breakdown, crashed, edits, probe, result>>

handleLayerDragOver(index) ==
  /\ ~crashed
  /\ ~(draggedIndex = << >> \/ draggedIndex = <<index>>)
  /\ LET newLayers    == modelLayers
         draggedLayer == At(newLayers, draggedIndex[1])
         removed      == Splice(newLayers, draggedIndex[1], 1, << >>)
     IN  modelLayers' = Splice(removed, index, 0, <<draggedLayer>>)
  /\ draggedIndex' = <<index>>
  /\ Render(modelLayers')
  /\ UNCHANGED <<memoryMode, precision, language, isDarkMode, edits, probe, result>>

handleLayerDragEnd ==
  /\ ~crashed
  /\ draggedIndex # << >>
  /\ draggedIndex' = << >>
  /\ UNCHANGED <<modelLayers, memoryMode, precision, language, isDarkMode, totalParams, totalFLOPs,
                 memoryEstimate, breakdown, crashed, edits, probe, result>>

\* the handlers as the rendered page wires them: the palette adds, and each
\* rendered layer offers its delete button, its field controls and its drag
\* handlers with its own id and index; a torn-down page offers nothing
AddLayerClick == ~crashed /\ \E type \in Palette, id \in Ids : addLayer(type, id)

DeleteClick ==
  ~crashed /\ \E i \in 1..Len(modelLayers) : deleteLayer(modelLayers[i].id)

FieldChange ==
  ~crashed /\ \E i \in 1..Len(modelLayers) :
    \E k \in 1..Len(fields(modelLayers[i].type)) :
      LET field == fields(modelLayers[i].type)[k]
      IN  \E value \in FieldInputs(field, modelLayers[i].params[field.key]) :
            updateLayerParam(modelLayers[i].id, field.key, value)

LayerDragStart == ~crashed /\ \E i \in 1..Len(modelLayers) : handleLayerDragStart(i - 1)

LayerDragOver == ~crashed /\ \E i \in 1..Len(modelLayers) : handleLayerDragOver(i - 1)

LayerDragEnd == handleLayerDragEnd

NoProbe == [fn |-> "none"]

\* the component as mounted, whatever language and theme it starts with
Mounted ==
  /\ modelLayers = << >>
  /\ draggedIndex = << >>
  /\ memoryMode = "inference"
  /\ precision = "fp32"
  /\ totalParams = 0
  /\ totalFLOPs = Big(0)
  /\ memoryEstimate = Num(0)
  /\ breakdown = << >>
  /\ crashed = FALSE
  /\ edits = 0
  /\ probe = NoProbe
  /\ result = << >>

\* a first visit: no language saved (the default 'en'), no theme saved and a
\* system that prefers the light theme
Init ==
  /\ Mounted
  /\ language = "en"
  /\ isDarkMode = FALSE

Next ==
  \/ AddLayerClick
  \/ DeleteClick
  \/ FieldChange
  \/ LayerDragStart
  \/ LayerDragOver
  \/ LayerDragEnd

Spec == Init /\ [][Next]_vars

(***************************************************************************)
(* The layer list used as a form: layers of the kinds that between them    *)
(* have every sort of control (number input, select, checkbox, and the     *)
(* fractional rate) are added, edited and deleted.                         *)
(***************************************************************************)
FormPalette == {"embedding", "linear", "dropout"}

AddFormLayerClick == ~crashed /\ \E type \in FormPalette, id \in Ids : addLayer(type, id)

NextForms ==
  \/ AddFormLayerClick
  \/ FieldChange
  \/ DeleteClick

SpecForms == Init /\ [][NextForms]_vars

(***************************************************************************)
(* The page with its language menu and theme button: it is mounted with    *)
(* any saved language and theme, and layers are added and edited while the *)
(* language and the theme are switched.                                    *)
(***************************************************************************)
InitDisplay ==
  /\ Mounted
  /\ language \in Languages
  /\ isDarkMode \in BOOLEAN

LanguageMenuClick ==
  ~crashed /\ \E newLang \in Languages \ {language} : handleLanguageChange(newLang)

DarkModeClick == handleDarkModeToggle

NextDisplay ==
  \/ AddLayerClick
  \/ FieldChange
  \/ LanguageMenuClick
  \/ DarkModeClick

SpecDisplay == InitDisplay /\ [][NextDisplay]_vars

(***************************************************************************)
(* The registry and the memory estimator called directly, as the unit      *)
(* tests call them: probe is the call, result what it returned.            *)
(***************************************************************************)
ProbeConfigs(type) ==
  CASE type = "embedding"   -> [vocab_size : {1, 5000, 10000}, embedding_dim : {1, 64, 128}]
    [] type = "linear"      -> [input_dim : {1, 3, 512}, output_dim : {1, 3, 256},
                                use_bias : BOOLEAN]
    [] type = "conv2d"      -> [in_channels : {1, 3}, out_channels : {1, 64},
                                kernel_size : {1, 3, 5}, use_bias : BOOLEAN]
    [] type \in {"lstm", "gru"} ->
                               [input_size : {1, 64, 128}, hidden_size : {1, 2, 128, 256},
                                num_layers : 1..MaxNumLayers, bidirectional : BOOLEAN]
    [] type = "transformer" -> [d_model : {1, 256, 512}, num_heads : {4, 8},
                                d_ff : {1, 1024, 2048}, dropout : {1}]
    [] type = "batchnorm"   -> [num_features : {1, 128, 1024}]
    [] type = "dropout"     -> [rate : {0, 1, 5}]
    [] type \in {"maxpool2d", "avgpool2d"} -> [kernel_size : {2, 3, 4}]
    [] type = "layernorm"   -> [normalized_shape : {1, 128, 512}]
    [] type = "attention"   -> [d_model : {1, 256, 512}, num_heads : {4, 8}]
    [] type \in {"relu", "softmax"} -> {<< >>}

\* the first optional argument of calculateFLOPs, omitted or supplied
ProbeArg1(type) ==
  CASE type \in {"lstm", "gru"} -> {<< >>, <<1>>, <<3>>, <<64>>, <<128>>}
    [] type \in {"transformer", "attention"} -> {<< >>, <<1>>, <<7>>, <<512>>}
    [] type = "conv2d" -> {<< >>, <<1>>, <<7>>, <<224>>}
    [] type \in {"batchnorm", "layernorm"} -> {<< >>, <<1>>, <<32>>}
    [] type \in {"maxpool2d", "avgpool2d"} -> {<< >>, <<3>>, <<64>>}
    [] OTHER -> {<< >>}

\* the second optional argument of calculateFLOPs
ProbeArg2(type) ==
  CASE type = "batchnorm" -> {<< >>, <<1>>, <<49>>}
    [] type = "layernorm" -> {<< >>, <<1>>, <<512>>}
    [] type \in {"maxpool2d", "avgpool2d"} -> {<< >>, <<7>>, <<224>>}
    [] OTHER -> {<< >>}

ProbeTotals == {0, 1, 1000000, 3152384}

ProbeModes == {"inference", "training"}

ProbePrecisions ==
  {"fp32", "fp16", "bf16", "int8", "tf32", "fp64", "constructor", "toString", "__proto__"}

\* each behaviour makes one call
CallCalculate ==
  probe = NoProbe /\ \E type \in KindSet : \E params \in ProbeConfigs(type) :
    /\ probe' = [fn |-> "calculate", type |-> type, params |-> params]
    /\ result' = calculate(type, params)
    /\ UNCHANGED uiVars

CallCalculateFLOPs ==
  probe = NoProbe /\ \E type \in KindSet : \E params \in ProbeConfigs(type) :
    \E a1 \in ProbeArg1(type), a2 \in ProbeArg2(type) :
      /\ probe' = [fn |-> "calculateFLOPs", type |-> type, params |-> params,
                   a1 |-> a1, a2 |-> a2]
      /\ result' = calculateFLOPs(type, params, a1, a2)
      /\ UNCHANGED uiVars

CallCalculateMemory ==
  probe = NoProbe /\ \E total \in ProbeTotals, mode \in ProbeModes, prec \in ProbePrecisions :
    /\ probe' = [fn |-> "calculateMemory", total |-> total, mode |-> mode,
                 precision |-> prec]
    /\ result' = calculateMemory(total, mode, prec)
    /\ UNCHANGED uiVars

\* the value of a digit sequence that fits a machine integer
RECURSIVE ToInt(_)
ToInt(b) == IF b = << >> THEN 0 ELSE Head(b) + Limb * ToInt(Tail(b))

\* a comparison that leaves the threshold itself to the smaller unit
AtLeast_strict(num, k) == Len(num) > k /\ num # [j \in 1..(k + 1) |-> IF j = k + 1 THEN 1 ELSE 0]

\* num >= 1e3, 1e6, 1e9, 1e12 for k = 1, 2, 3, 4
AtLeast(num, k) == Len(num) > k

\* (num / 10^(3k)).toFixed(2), in hundredths: the quotient rounded to the
\* nearest hundredth.  On an exact tie the double that the division produced
\* decides the direction.
toFixed2(num, k) ==
  LET whole == ToInt(SubSeq(num, k + 1, Len(num)))
      milli == num[k]
      below == \E j \in 1..(k - 1) : num[j] # 0
      q     == 100 * whole + milli \div 10
      r     == milli % 10
  IN  IF r > 5 \/ (r = 5 /\ below) THEN {q + 1}
      ELSE IF r = 5 THEN {q, q + 1}
      ELSE {q}

\* a formatted string: the digits (the number times 10^decimals) and the unit
Formatted(digits, decimals, suffix) ==
  [digits |-> digits, decimals |-> decimals, suffix |-> suffix]

\* formatNumber(num), the strings it can return
formatNumber(num) ==
  IF AtLeast(num, 4) THEN {Formatted(h, 2, "T") : h \in toFixed2(num, 4)}
  ELSE IF AtLeast(num, 3) THEN {Formatted(h, 2, "G") : h \in toFixed2(num, 3)}
  ELSE IF AtLeast(num, 2) THEN {Formatted(h, 2, "M") : h \in toFixed2(num, 2)}
  ELSE IF AtLeast(num, 1) THEN {Formatted(h, 2, "K") : h \in toFixed2(num, 1)}
  ELSE {Formatted(ToInt(num), 0, "")}

\* formatBytes(bytes), the strings it can return
formatBytes(bytes) ==
  IF AtLeast(bytes, 3) THEN {Formatted(h, 2, " GB") : h \in toFixed2(bytes, 3)}
  ELSE IF AtLeast(bytes, 2) THEN {Formatted(h, 2, " MB") : h \in toFixed2(bytes, 2)}
  ELSE IF AtLeast(bytes, 1) THEN {Formatted(h, 2, " KB") : h \in toFixed2(bytes, 1)}
  ELSE {Formatted(ToInt(bytes), 0, " B")}

\* the counts handed to the formatters: around every threshold, on it, and
\* on rounding ties
FormatProbes ==
  {Big(n) : n \in {0, 1, 512, 999, 1000, 1001, 1005, 1500, 4000, 999994, 999995,
                   999999, 1000000, 3152384, 4000000, 999999999, 1000000000,
                   1500000000}}
  \cup {<<0, 0, 0, 4>>, <<999, 999, 999, 999>>, <<0, 0, 0, 0, 1>>, <<1, 0, 0, 0, 1>>,
        <<0, 0, 0, 0, 2>>, <<0, 0, 0, 345, 12>>, <<0, 0, 0, 0, 0, 1>>}

CallFormat ==
  probe = NoProbe /\ \E num \in FormatProbes :
    /\ \/ /\ probe' = [fn |-> "formatNumber", num |-> num]
          /\ result' \in formatNumber(num)
       \/ /\ probe' = [fn |-> "formatBytes", num |-> num]
          /\ result' \in formatBytes(num)
    /\ UNCHANGED uiVars

\* the kinds whose calculate / calculateFLOPs is declared as () => 0
CalculateTakesNothing == {"dropout", "maxpool2d", "avgpool2d", "relu", "softmax"}

CalculateFLOPsTakesNothing == {"embedding", "dropout", "relu", "softmax"}

\* what reading a property of undefined throws
TypeError == [threw |-> "TypeError"]

\* LAYER_TYPES[type].calculate(): params is undefined
calculateNoArguments(type) ==
  IF type \in CalculateTakesNothing THEN calculate(type, << >>) ELSE TypeError

\* LAYER_TYPES[type].calculateFLOPs(): params is undefined
calculateFLOPsNoArguments(type) ==
  IF type \in CalculateFLOPsTakesNothing
  THEN calculateFLOPs(type, << >>, << >>, << >>)
  ELSE TypeError

CallWithoutArguments ==
  probe = NoProbe /\ \E type \in KindSet :
    /\ \/ /\ probe' = [fn |-> "calculate()", type |-> type]
          /\ result' = calculateNoArguments(type)
       \/ /\ probe' = [fn |-> "calculateFLOPs()", type |-> type]
          /\ result' = calculateFLOPsNoArguments(type)
    /\ UNCHANGED uiVars

NextRegistry ==
  \/ CallCalculate
  \/ CallCalculateFLOPs
  \/ CallCalculateMemory
  \/ CallWithoutArguments
  \/ CallFormat

SpecRegistry == Init /\ [][NextRegistry]_vars

(***************************************************************************)
(* Code generation.  generatePyTorchCode, generateTensorFlowCode and       *)
(* generateJAXCode (utils/codeGenerator) are called by the component but   *)
(* are not among the sources; their three passes are modelled from the     *)
(* specification: group (4.4), annotate (4.5) and emit (4.6).              *)
(***************************************************************************)

\* a Group: kind tag, shared configuration, member count, member identities
Close(current) ==
  [type    |-> current[1].type,
   params  |-> current[1].params,
   count   |-> Len(current),
   members |-> [k \in 1..Len(current) |-> current[k].id]]

\* a scan whose groups are keyed on the kind alone
RECURSIVE groupScan_kindOnly(_, _, _, _)
groupScan_kindOnly(layers, i, current, groups) ==
  LET emitted == IF current = << >> THEN groups ELSE Append(groups, Close(current))
  IN  IF i > Len(layers) THEN emitted
      ELSE IF current # << >> /\ layers[i].type = current[1].type
      THEN groupScan_kindOnly(layers, i + 1, Append(current, layers[i]), groups)
      ELSE groupScan_kindOnly(layers, i + 1, <<layers[i]>>, emitted)

\* the left-to-right scan: the current group accumulates instances while kind
\* and configuration equal those of its first member; on a mismatch or at the
\* end of the sequence it is closed and emitted
RECURSIVE groupScan(_, _, _, _)
groupScan(layers, i, current, groups) ==
  LET emitted == IF current = << >> THEN groups ELSE Append(groups, Close(current))
  IN  IF i > Len(layers) THEN emitted
      ELSE IF /\ current # << >>
              /\ layers[i].type = current[1].type
              /\ layers[i].params = current[1].params
      THEN groupScan(layers, i + 1, Append(current, layers[i]), groups)
      ELSE groupScan(layers, i + 1, <<layers[i]>>, emitted)

\* a pass that drops the group still open at the end of the sequence
group_lastOpen(layers) ==
  LET groups == groupScan(layers, 1, << >>, << >>)
  IN  IF Len(groups) > 1 THEN SubSeq(groups, 1, Len(groups) - 1) ELSE groups

\* group(sequence of LayerInstance) -> ordered sequence of Group
group(layers) == groupScan(layers, 1, << >>, << >>)

\* the rank a kind fixes for what follows it, "none" when it fixes none
FixedRank(type) ==
  CASE type \in {"conv2d", "maxpool2d", "avgpool2d"} -> "spatial"
    [] type \in {"embedding", "linear", "lstm", "gru", "attention"} -> "flat"
    [] OTHER -> "none"

Normalization == {"batchnorm", "layernorm"}

\* a scan that looks at the immediate predecessor only
resolveRank_predecessorOnly(layers, position) ==
  IF position <= 1 THEN "flat"
  ELSE IF FixedRank(layers[position - 1].type) # "none"
  THEN FixedRank(layers[position - 1].type)
  ELSE "flat"

\* the backward scan from a position of the original sequence for the
\* nearest preceding layer that fixes a rank; flat when there is none
RECURSIVE resolveRank(_, _)
resolveRank(layers, position) ==
  IF position <= 1 THEN "flat"
  ELSE IF FixedRank(layers[position - 1].type) # "none"
  THEN FixedRank(layers[position - 1].type)
  ELSE resolveRank(layers, position - 1)

\* the position in the original sequence of the instance with the identity
PositionOf(layers, id) == CHOOSE k \in 1..Len(layers) : layers[k].id = id

\* how many of the first n groups have the kind
RECURSIVE UnitsOfKind(_, _, _)
UnitsOfKind(groups, n, type) ==
  IF n = 0 THEN 0
  ELSE UnitsOfKind(groups, n - 1, type) + (IF groups[n].type = type THEN 1 ELSE 0)

\* annotate(ordered sequence of Group, full original sequence) -> NamedUnits:
\* the name is the kind's tag with the per-kind ordinal of the unit (the
\* first one bare), the rank is resolved for normalization units only, from
\* the position of the unit (its first member) in the original sequence
annotate(groups, layers) ==
  [g \in 1..Len(groups) |->
     [group |-> groups[g],
      name  |-> <<groups[g].type, UnitsOfKind(groups, g, groups[g].type)>>,
      rank  |-> IF groups[g].type \in Normalization
                THEN resolveRank(layers, PositionOf(layers, groups[g].members[1]))
                ELSE "none"]]

Frameworks == {"pytorch", "tensorflow", "jax"}

\* the repeated-block construct of a framework for a kind, parameterized by
\* the member count
RepeatedBlock(framework, type, count) ==
  IF framework = "pytorch" /\ type = "transformer"
  THEN <<"TransformerEncoder", "num_layers", count>>
  ELSE <<"repeat", type, count>>

\* a generator that declares every group as one ordinary instance
emit_unrolled(framework, units) ==
  [u \in 1..Len(units) |->
     [name      |-> units[u].name,
      construct |-> "single",
      block     |-> <<units[u].group.type>>]]

\* emit(ordered sequence of NamedUnit) -> text, as its sequence of
\* declarations: one per unit, a repeated block for a group of more than one
\* member and an ordinary single declaration otherwise
emit(framework, units) ==
  [u \in 1..Len(units) |->
     IF units[u].group.count > 1
     THEN [name      |-> units[u].name,
           construct |-> "repeated",
           block     |-> RepeatedBlock(framework, units[u].group.type,
                                       units[u].group.count)]
     ELSE [name      |-> units[u].name,
           construct |-> "single",
           block     |-> <<units[u].group.type>>]]

\* the model handed to a generator: at most MaxCodeLayers layers, each a
\* freshly added layer of some kind or a transformer edited to d_model 256
CodeKinds == {"transformer", "linear", "conv2d", "batchnorm", "dropout"}

CodeLayerShapes ==
  {[type |-> type, params |-> defaultParams(type)] : type \in CodeKinds}
  \cup {[type |-> "transformer",
         params |-> [defaultParams("transformer") EXCEPT !.d_model = 256]]}

CodeModels ==
  UNION {[1..n -> CodeLayerShapes] : n \in 0..MaxCodeLayers}

\* generatedCode: the generator of the selected framework run on modelLayers
GenerateCode ==
  probe = NoProbe /\ \E shapes \in CodeModels, framework \in Frameworks :
    LET layers == [k \in 1..Len(shapes) |->
                     [id |-> k, type |-> shapes[k].type, params |-> shapes[k].params]]
        groups == group(layers)
        units  == annotate(groups, layers)
    IN  /\ probe' = [fn |-> "generateCode", framework |-> framework, layers |-> layers]
        /\ result' = [groups |-> groups, units |-> units, code |-> emit(framework, units)]
        /\ UNCHANGED uiVars

NextCodegen == GenerateCode

SpecCodegen == Init /\ [][NextCodegen]_vars

(***************************************************************************)
(* Image export: handleExportImage of the component and exportToImage,     *)
(* validateExportElement, showExportError of utils/imageExport.  The call  *)
(* in flight is the record `probe', the value its promise resolved to is   *)
(* `result'.  A step runs one synchronous stretch of the code, from one    *)
(* await (or callback) to the next.                                        *)
(***************************************************************************)
MAX_RETRIES == 1

\* captureAreaRef.current: null, an element whose bounding rectangle has a
\* zero side, an element with a non-empty rectangle
Elements == {"null", "empty", "visible"}

validateExportElement(element) ==
  CASE element = "null"  -> [valid |-> FALSE, error |-> "no-element"]
    [] element = "empty" -> [valid |-> FALSE, error |-> "empty-element"]
    [] OTHER             -> [valid |-> TRUE, error |-> "null"]

\* the text showExportError hands to alert: messages[errorType] || messages['unknown']
showExportError(errorType) ==
  CASE errorType = "no-element" -> "Export area not found. Please try again."
    [] errorType = "timeout"    -> "Image generation timed out. Please try again."
    [] errorType = "cors"       -> "Cannot export image due to CORS policy."
    [] OTHER                    -> "Failed to export image. Please try again."

\* the frame of a call before anything ran
Frame(caller, element) ==
  [fn       |-> "exportToImage",
   caller   |-> caller,
   element  |-> element,
   options  |-> [isDarkMode |-> << >>, retryCount |-> << >>],
   pc       |-> "idle",
   started  |-> FALSE,
   captures |-> 0,
   thrown   |-> 0,
   alerts   |-> << >>]

\* a retry after a throw is allowed up to and including a count of MAX_RETRIES
canRetry_inclusive(retryCount) == retryCount <= MAX_RETRIES

\* if (retryCount < MAX_RETRIES)
canRetry(retryCount) == retryCount < MAX_RETRIES

\* exportToImage returns value (its promise resolves)
Return(frame, value) ==
  /\ probe' = [frame EXCEPT !.pc = "returned"]
  /\ result' = <<value>>

\* exportToImage(element, options) up to its first await
exportToImage(frame, options) ==
  LET entered == [frame EXCEPT !.options = options, !.started = TRUE]
  IN  IF frame.element = "null"
      THEN Return(entered, FALSE)
      ELSE /\ probe' = [entered EXCEPT !.pc = "fonts"]
           /\ result' = << >>

\* the confirm button of the modal: handleExportImage up to its await
handleExportImage ==
  /\ probe = NoProbe
  /\ \E element \in Elements :
       LET frame      == Frame("handleExportImage", element)
           validation == validateExportElement(element)
       IN  IF ~validation.valid
           THEN /\ probe' = [frame EXCEPT !.pc = "done",
                                          !.alerts = <<showExportError(validation.error)>>]
                /\ result' = << >>
           ELSE exportToImage(frame, [isDarkMode |-> <<isDarkMode>>, retryCount |-> << >>])
  /\ UNCHANGED uiVars

\* a call of the exported function by another caller, options as documented
CallExportToImage ==
  /\ probe = NoProbe
  /\ \E element \in Elements, dark \in {<< >>, <<FALSE>>, <<TRUE>>} :
       exportToImage(Frame("direct", element), [isDarkMode |-> dark, retryCount |-> << >>])
  /\ UNCHANGED uiVars

InFlight(pc) == probe.fn = "exportToImage" /\ probe.pc = pc

\* await document.fonts.ready resolves; the 100 ms timer is started
FontsReady ==
  /\ InFlight("fonts")
  /\ probe' = [probe EXCEPT !.pc = "settle"]
  /\ UNCHANGED <<result, uiVars>>

\* the 100 ms timer fires; html2canvas(element, ...) is called
SettleTimeout ==
  /\ InFlight("settle")
  /\ probe' = [probe EXCEPT !.pc = "html2canvas", !.captures = @ + 1]
  /\ UNCHANGED <<result, uiVars>>

\* html2canvas resolves with a canvas; canvas.toBlob is called
CaptureResolves ==
  /\ InFlight("html2canvas")
  /\ probe' = [probe EXCEPT !.pc = "toBlob"]
  /\ UNCHANGED <<result, uiVars>>

\* html2canvas (or its onclone callback) throws: the catch block
CaptureThrows ==
  /\ InFlight("html2canvas")
  /\ LET retryCount == Arg(probe.options.retryCount, 0)
         caught     == [probe EXCEPT !.thrown = @ + 1]
     IN  IF canRetry(retryCount)
         THEN /\ probe' = [caught EXCEPT !.pc = "retryWait"]
              /\ result' = << >>
         ELSE Return(caught, FALSE)
  /\ UNCHANGED uiVars

\* the 500 ms timer fires:
\* return exportToImage(element, { ...options, retryCount: retryCount + 1 })
RetryTimeout ==
  /\ InFlight("retryWait")
  /\ LET retryCount == Arg(probe.options.retryCount, 0)
     IN  exportToImage(probe, [probe.options EXCEPT !.retryCount = <<retryCount + 1>>])
  /\ UNCHANGED uiVars

\* the toBlob callback: no blob, a blob whose download throws, a blob that
\* is downloaded
BlobCallback ==
  /\ InFlight("toBlob")
  /\ \E blob \in BOOLEAN, downloadThrows \in BOOLEAN :
       IF ~blob THEN Return(probe, FALSE)
       ELSE IF downloadThrows THEN Return(probe, FALSE)
       ELSE Return(probe, TRUE)
  /\ UNCHANGED uiVars

\* handleExportImage after its await: if (!success) showExportError('unknown')
HandlerResumes ==
  /\ InFlight("returned")
  /\ probe.caller = "handleExportImage"
  /\ LET success == result[1]
     IN  probe' = [probe EXCEPT !.pc = "done",
                                !.alerts = IF ~success
                                           THEN Append(@, showExportError("unknown"))
                                           ELSE @]
  /\ UNCHANGED <<result, uiVars>>

NextExport ==
  \/ handleExportImage
  \/ CallExportToImage
  \/ FontsReady
  \/ SettleTimeout
  \/ CaptureResolves
  \/ CaptureThrows
  \/ RetryTimeout
  \/ BlobCallback
  \/ HandlerResumes
  \/ DarkModeClick

\* every promise and timer the code awaits settles: fonts.ready, the two
\* timers, html2canvas (one way or the other) and the toBlob callback
ExportFairness ==
  /\ WF_vars(FontsReady)
  /\ WF_vars(SettleTimeout)
  /\ WF_vars(CaptureResolves \/ CaptureThrows)
  /\ WF_vars(RetryTimeout)
  /\ WF_vars(BlobCallback)
  /\ WF_vars(HandlerResumes)

SpecExport == InitDisplay /\ [][NextExport]_vars /\ ExportFairness

(***************************************************************************)
(* Properties of the registry (checked under SpecRegistry).                *)
(***************************************************************************)
IsCall(fn) == probe.fn = fn

Gates(type) == IF type = "lstm" THEN 4 ELSE 3

Dir(params) == IF params.bidirectional THEN 2 ELSE 1

\* in_l of the stacked recurrent layer l
LayerInput(params, l) ==
  IF l = 0 THEN params.input_size ELSE params.hidden_size * Dir(params)

\* sum over l = 0..top of gates * (in_l * H + H*H + 2*H) * dir
RECURSIVE RecurrentParamSum(_, _, _)
RecurrentParamSum(gates, params, top) ==
  IF top < 0 THEN 0
  ELSE gates * (LayerInput(params, top) * params.hidden_size
                + params.hidden_size * params.hidden_size
                + 2 * params.hidden_size) * Dir(params)
       + RecurrentParamSum(gates, params, top - 1)

\* C1: for LSTM (4 gates) and GRU (3 gates) calculate is the sum over the
\* stacked layers of gates * (in_l * H + H*H + 2*H) * dir, with in_0 the input
\* size and in_l = H * dir above; LSTM(128, 256, 1, unidirectional) is 395264
\* and LSTM(128, 256, 2, bidirectional) is 2367488.
C1_RecurrentParams ==
  (IsCall("calculate") /\ probe.type \in {"lstm", "gru"}) =>
    /\ result = RecurrentParamSum(Gates(probe.type), probe.params,
                                  probe.params.num_layers - 1)
    /\ (probe.type = "lstm"
        /\ probe.params = [input_size |-> 128, hidden_size |-> 256,
                           num_layers |-> 1, bidirectional |-> FALSE])
         => result = 395264
    /\ (probe.type = "lstm"
        /\ probe.params = [input_size |-> 128, hidden_size |-> 256,
                           num_layers |-> 2, bidirectional |-> TRUE])
         => result = 2367488

C1_Witness ==
  /\ IsCall("calculate")
  /\ probe.type = "lstm"
  /\ probe.params.num_layers = 2
  /\ probe.params.bidirectional
  /\ probe.params.input_size = 128
  /\ probe.params.hidden_size = 256
  /\ result = 2367488

\* C2: with num_layers = 1 the GRU count is 0.75 of the LSTM count of the same
\* configuration: 4 * gru.calculate(c) = 3 * lstm.calculate(c).
C2_GruThreeQuarters ==
  (IsCall("calculate") /\ probe.type = "gru" /\ probe.params.num_layers = 1) =>
    4 * result = 3 * lstm_calculate(probe.params)

C2_Witness ==
  /\ IsCall("calculate")
  /\ probe.type = "gru"
  /\ probe.params = [input_size |-> 128, hidden_size |-> 256,
                     num_layers |-> 1, bidirectional |-> FALSE]
  /\ result = 296448

\* C3: a single-layer bidirectional LSTM costs exactly twice the FLOPs of the
\* unidirectional LSTM with the same sizes, at every sequence length.
C3_BidirectionalDoubles ==
  (IsCall("calculateFLOPs") /\ probe.type = "lstm"
   /\ probe.params.num_layers = 1 /\ probe.params.bidirectional) =>
    result = BScale(lstm_calculateFLOPs(
                      [probe.params EXCEPT !.bidirectional = FALSE], probe.a1), 2)

C3_Witness ==
  /\ IsCall("calculateFLOPs")
  /\ probe.type = "lstm"
  /\ probe.params.num_layers = 1
  /\ probe.params.bidirectional
  /\ probe.params.hidden_size = 256
  /\ probe.a1 = <<128>>
  /\ result # Big(0)

\* sum over l = 0..top of gates * 2 * (in_l * H + H*H) * n * dir
RECURSIVE RecurrentFlopSum(_, _, _, _)
RecurrentFlopSum(gates, params, n, top) ==
  IF top < 0 THEN 0
  ELSE gates * 2 * (LayerInput(params, top) * params.hidden_size
                    + params.hidden_size * params.hidden_size) * n * Dir(params)
       + RecurrentFlopSum(gates, params, n, top - 1)

\* C4: for LSTM and GRU, any depth and direction, and a sequence length
\* n >= 1, calculateFLOPs(config, 2n) = 2 * calculateFLOPs(config, n), and the
\* count is the sum over the layers of gates * 2 * (in_l * H + H*H) * n * dir.
C4_LinearInSeqLen ==
  (IsCall("calculateFLOPs") /\ probe.type \in {"lstm", "gru"} /\ probe.a1 # << >>) =>
    LET n == probe.a1[1]
    IN  /\ calculateFLOPs(probe.type, probe.params, <<2 * n>>, << >>) = BScale(result, 2)
        /\ result = Big(RecurrentFlopSum(Gates(probe.type), probe.params, n,
                                         probe.params.num_layers - 1))

C4_Witness ==
  /\ IsCall("calculateFLOPs")
  /\ probe.type = "gru"
  /\ probe.params.num_layers >= 2
  /\ probe.params.bidirectional
  /\ probe.a1 = <<64>>
  /\ result # Big(0)

\* a supplied argument, or the stated default d (<< >> when none is stated)
Fill(a, d) == IF a = << >> THEN d ELSE a

\* the defaults as the registry documentation states them: 128 for the
\* recurrent kinds, 512 for attention and transformer, 224 for the
\* convolutional and pooling kinds, batch 32 and multiplier 1 for both
\* normalization kinds
StatedDefaults(type) ==
  CASE type \in {"lstm", "gru"} -> << <<128>>, << >> >>
    [] type \in {"transformer", "attention"} -> << <<512>>, << >> >>
    [] type = "conv2d" -> << <<224>>, << >> >>
    [] type \in {"maxpool2d", "avgpool2d"} -> << << >>, <<224>> >>
    [] type \in {"batchnorm", "layernorm"} -> << <<32>>, <<1>> >>
    [] OTHER -> << << >>, << >> >>

\* the same, with LayerNorm's second default the sequence length 512
AmendedDefaults(type) ==
  IF type = "layernorm" THEN << <<32>>, <<512>> >> ELSE StatedDefaults(type)

\* C5 as stated: a FLOPs call that omits context equals the call with the
\* documented defaults supplied (sequence length 128 / 512, spatial size 224,
\* batch 32 and spatial multiplier 1 for BatchNorm and LayerNorm).
C5_StatedDefaults ==
  IsCall("calculateFLOPs") =>
    result = calculateFLOPs(probe.type, probe.params,
                            Fill(probe.a1, StatedDefaults(probe.type)[1]),
                            Fill(probe.a2, StatedDefaults(probe.type)[2]))

\* C5 amended: as stated, except that LayerNorm's second default is the
\* sequence length 512 (BatchNorm keeps the spatial multiplier 1).
C5_AmendedDefaults ==
  IsCall("calculateFLOPs") =>
    result = calculateFLOPs(probe.type, probe.params,
                            Fill(probe.a1, AmendedDefaults(probe.type)[1]),
                            Fill(probe.a2, AmendedDefaults(probe.type)[2]))

C5_Witness ==
  /\ IsCall("calculateFLOPs")
  /\ probe.type = "layernorm"
  /\ probe.params.normalized_shape = 512
  /\ probe.a1 = << >>
  /\ probe.a2 = << >>
  /\ result = Big(41943040)

TableKeys == {"fp32", "fp16", "bf16", "int8"}

ModeFactor(mode) == IF mode = "inference" THEN 1 ELSE 4

\* C7: every precision key outside fp32, fp16, bf16, int8 is estimated at 4
\* bytes per parameter, and the result is always a number.
C7_UnknownPrecisionFallback ==
  (IsCall("calculateMemory") /\ probe.precision \notin TableKeys) =>
    result = Num(probe.total * 4 * ModeFactor(probe.mode))

StatedBytes(prec) ==
  CASE prec = "fp32" -> 4
    [] prec = "fp16" -> 2
    [] prec = "bf16" -> 2
    [] prec = "int8" -> 1

\* C8: for the four table precisions calculateMemory is totalParams * b in
\* inference mode and totalParams * b * 4 in training mode (b = 4, 2, 2, 1 for
\* fp32, fp16, bf16, int8); training is 4 times inference and bf16 equals fp16.
C8_MemoryTable ==
  (IsCall("calculateMemory") /\ probe.precision \in TableKeys) =>
    /\ result = Num(probe.total * StatedBytes(probe.precision) * ModeFactor(probe.mode))
    /\ calculateMemory(probe.total, "training", probe.precision).n
         = 4 * calculateMemory(probe.total, "inference", probe.precision).n
    /\ ~calculateMemory(probe.total, "training", probe.precision).nan
    /\ calculateMemory(probe.total, probe.mode, "bf16")
         = calculateMemory(probe.total, probe.mode, "fp16")

C8_Witness ==
  /\ IsCall("calculateMemory")
  /\ probe.total = 1000000
  /\ probe.mode = "training"
  /\ probe.precision = "fp16"
  /\ result = Num(8000000)

(***************************************************************************)
(* Properties of the component (checked under Spec).                       *)
(***************************************************************************)

\* C6 as stated: every instance of the model has exactly the keys its kind's
\* schema (the descriptor's fields list) declares, no extra and no missing
\* key, after addLayer and after any updateLayerParam calls.
C6_ParamsMatchSchema ==
  \A i \in 1..Len(modelLayers) :
    ~IsUndefined(modelLayers[i]) =>
      DOMAIN modelLayers[i].params = SchemaKeys(modelLayers[i].type)

\* a <= b on normalised little-endian numbers
RECURSIVE BLeqFrom(_, _, _)
BLeqFrom(a, b, i) ==
  IF i = 0 THEN TRUE
  ELSE IF a[i] # b[i] THEN a[i] < b[i]
  ELSE BLeqFrom(a, b, i - 1)

BLeq(a, b) ==
  IF Len(a) # Len(b) THEN Len(a) < Len(b) ELSE BLeqFrom(a, b, Len(a))

\* the sum of calculate(layer.params), from the last layer back
RECURSIVE SumParams(_)
SumParams(layers) ==
  IF layers = << >> THEN 0
  ELSE calculate(layers[Len(layers)].type, layers[Len(layers)].params)
       + SumParams(SubSeq(layers, 1, Len(layers) - 1))

\* the sum of calculateFLOPs(layer.params, default context of the kind)
RECURSIVE SumFLOPs(_)
SumFLOPs(layers) ==
  IF layers = << >> THEN Big(0)
  ELSE LET last == layers[Len(layers)]
       IN  BAdd(calculateFLOPs(last.type, last.params,
                               AmendedDefaults(last.type)[1],
                               AmendedDefaults(last.type)[2]),
                SumFLOPs(SubSeq(layers, 1, Len(layers) - 1)))

\* p tenths of a percent is 100 * layerParams / total to one decimal place:
\* |p / 10 - 100 * layerParams / total| <= 0.05
NearestTenth(p, layerParams, total) ==
  /\ BLeq(Prod(<<total, 2, p>>), BAdd(Prod(<<layerParams, 2000>>), Big(total)))
  /\ BLeq(Prod(<<layerParams, 2000>>), BAdd(Prod(<<total, 2, p>>), Big(total)))

Count(arr, x) == Cardinality({k \in 1..Len(arr) : arr[k] = x})

RemoveAt(arr, i) == SubSeq(arr, 1, i) \o SubSeq(arr, i + 2, Len(arr))

IsClamped(s, v) ==
  /\ s >= 1
  /\ \/ 10 * s <= v /\ v < 10 * s + 10
     \/ s = 1 /\ v < 10

\* what updateLayerParam is to store for the key and the value
IsStored(s, key, value) ==
  IF value.type = "number" /\ key # "rate" THEN IsClamped(s, value.v) ELSE s = value.v

\* every numeric schema field other than rate holds an integer >= 1
NumericFieldsPositive ==
  \A i \in 1..Len(modelLayers) :
    ~IsUndefined(modelLayers[i]) =>
      \A k \in 1..Len(fields(modelLayers[i].type)) :
        LET field == fields(modelLayers[i].type)[k]
        IN  (field.type # "checkbox" /\ field.key # "rate") =>
              /\ modelLayers[i].params[field.key] \in Int
              /\ modelLayers[i].params[field.key] >= 1

\* C11: updateLayerParam(id, key, value) stores max(1, floor(value)) when the
\* value is a number and the key is not rate, and the value unchanged when
\* the key is rate or the value is a checkbox boolean; the other keys and the
\* other layers are left alone; consequently every numeric schema field other
\* than rate holds an integer >= 1 after any sequence of adds and edits.
C11_EditClamps ==
  /\ []NumericFieldsPositive
  /\ [][~crashed =>
          \A i \in 1..Len(modelLayers) :
            \A k \in 1..Len(fields(modelLayers[i].type)) :
              LET layer == modelLayers[i]
                  field == fields(layer.type)[k]
              IN  \A value \in FieldInputs(field, layer.params[field.key]) :
                    updateLayerParam(layer.id, field.key, value) =>
                      /\ Len(modelLayers') = Len(modelLayers)
                      /\ \A m \in 1..Len(modelLayers) :
                           IF modelLayers[m].id # layer.id
                           THEN modelLayers'[m] = modelLayers[m]
                           ELSE /\ IsStored(modelLayers'[m].params[field.key],
                                            field.key, value)
                                /\ \A key \in DOMAIN modelLayers[m].params \ {field.key} :
                                     modelLayers'[m].params[key] = modelLayers[m].params[key]
                                /\ modelLayers'[m].id = modelLayers[m].id
                                /\ modelLayers'[m].type = modelLayers[m].type]_vars

C11_Witness ==
  /\ edits = 1
  /\ Len(modelLayers) = 2
  /\ modelLayers[1].type = "embedding"
  /\ modelLayers[1].params.vocab_size = 1
  /\ modelLayers[2].type = "linear"
  /\ modelLayers[2].params.use_bias

(***************************************************************************)
(* Identity of the instances (checked under Spec).                         *)
(***************************************************************************)
UniqueIds ==
  \A i, j \in 1..Len(modelLayers) :
    (~IsUndefined(modelLayers[i]) /\ modelLayers[i].id = modelLayers[j].id) => i = j

\* C12 as stated: after any sequence of add, delete, reorder and edit
\* operations no two instances of the model share an id, and the id of an
\* instance does not change while it is in the model (every instance of the
\* new model is the one just appended or carries the id and kind of an
\* instance of the old model).
C12_UniqueStableIds ==
  /\ []UniqueIds
  /\ [][\A m \in 1..Len(modelLayers') :
          ~IsUndefined(modelLayers'[m]) =>
            \/ Len(modelLayers') = Len(modelLayers) + 1 /\ m = Len(modelLayers')
            \/ \E k \in 1..Len(modelLayers) :
                 /\ modelLayers[k].id = modelLayers'[m].id
                 /\ modelLayers[k].type = modelLayers'[m].type]_vars

(***************************************************************************)
(* Range of the calculators (checked under SpecRegistry).                  *)
(***************************************************************************)

\* b is the digit sequence of one natural number
IsNatural(b) ==
  /\ b \in Seq(0..(Limb - 1))
  /\ b # << >> => b[Len(b)] # 0

\* C13: for every kind, every configuration of positive integers with all
\* schema fields present and every context of positive integers, calculate
\* and calculateFLOPs return non-negative integers.
C13_NonNegativeIntegers ==
  /\ IsCall("calculate") => (result \in Int /\ result >= 0)
  /\ IsCall("calculateFLOPs") => IsNatural(result)

C13_Witness ==
  /\ IsCall("calculateFLOPs")
  /\ probe.type = "maxpool2d"
  /\ probe.params.kernel_size = 3
  /\ probe.a1 = << >>
  /\ probe.a2 = <<224>>
  /\ result = Big(64 * 74 * 74 * 9)

(***************************************************************************)
(* Language and theme (checked under SpecDisplay).                         *)
(***************************************************************************)

\* whatever the translation table and the theme, the descriptors carry the
\* defaultParams and the schema of the descriptors in use
DescriptorsAgree ==
  \A lang \in Languages, dark \in BOOLEAN, type \in KindSet :
    LET other == getLayerTypes(TRANSLATIONS(lang), dark)
    IN  /\ other[type].defaultParams = LAYER_TYPES[type].defaultParams
        /\ other[type].fields = LAYER_TYPES[type].fields

\* C14: language and theme never affect calculation results: the descriptors
\* built for any two (translation table, isDarkMode) pairs have identical
\* defaultParams for every kind, and switching the language or the theme
\* leaves the layer sequence and the totals unchanged.
C14_DisplayInvariance ==
  /\ []DescriptorsAgree
  /\ [][((\E newLang \in Languages : handleLanguageChange(newLang))
           \/ handleDarkModeToggle)
          => UNCHANGED <<modelLayers, totalParams, totalFLOPs, memoryEstimate>>]_vars

C14_Witness ==
  /\ language = "ko"
  /\ isDarkMode
  /\ Len(modelLayers) = 2
  /\ modelLayers[1].type = "transformer"
  /\ modelLayers[1].params.dropout = 1
  /\ modelLayers[2].type = "embedding"
  /\ totalParams = 3152384 + 10000 * 128

(***************************************************************************)
(* Closed forms of the remaining kinds (checked under SpecRegistry).       *)
(***************************************************************************)
MhaParams(d) == 4 * (d * d + d)

FfnParams(d, d_ff) == d * d_ff + d_ff + d_ff * d + d

\* C15: transformer.calculate = 4*(d*d + d) + (d*d_ff + d_ff + d_ff*d + d)
\* + 2*(2*d), whatever num_heads is; attention.calculate = 4*(d*d + d), the
\* transformer's attention term, so the transformer count exceeds the
\* attention count of the same d_model; with d_ff = 4*d the transformer count
\* is 12*d*d + 13*d.
C15_TransformerParams ==
  /\ (IsCall("calculate") /\ probe.type = "transformer") =>
       LET d    == probe.params.d_model
           d_ff == probe.params.d_ff
           attn == attention_calculate([d_model |-> d,
                                        num_heads |-> probe.params.num_heads])
       IN  /\ result = MhaParams(d) + FfnParams(d, d_ff) + 2 * (2 * d)
           /\ \A h \in {1, 4, 8, 16} :
                transformer_calculate([probe.params EXCEPT !.num_heads = h]) = result
           /\ result - FfnParams(d, d_ff) - 2 * (2 * d) = attn
           /\ result > attn
           /\ d_ff = 4 * d => result = 12 * d * d + 13 * d
  /\ (IsCall("calculate") /\ probe.type = "attention") =>
       result = MhaParams(probe.params.d_model)

C15_Witness ==
  /\ IsCall("calculate")
  /\ probe.type = "transformer"
  /\ probe.params.d_model = 512
  /\ probe.params.d_ff = 2048
  /\ probe.params.num_heads = 4
  /\ result = 12 * 512 * 512 + 13 * 512

\* 3*2*S*d*d + 2*S*S*d + 2*S*d*d
AttentionFlops(S, d) ==
  BAdd(BAdd(Prod(<<d, d, S, 2, 3>>), Prod(<<d, S, S, 2>>)), Prod(<<d, d, S, 2>>))

\* C16: transformer.calculateFLOPs(config, S) = 3*2*S*d*d + 2*S*S*d + 2*S*d*d
\* + S*(2*d*d_ff + 2*d_ff*d), attention.calculateFLOPs(config, S) is the first
\* three terms only, so the transformer FLOPs are the attention FLOPs plus the
\* FFN term S*4*d*d_ff.
C16_TransformerFlops ==
  /\ (IsCall("calculateFLOPs") /\ probe.type = "transformer" /\ probe.a1 # << >>) =>
       LET S    == probe.a1[1]
           d    == probe.params.d_model
           d_ff == probe.params.d_ff
       IN  /\ result = BAdd(AttentionFlops(S, d),
                            BScale(BAdd(Prod(<<d_ff, d, 2>>), Prod(<<d, d_ff, 2>>)), S))
           /\ result = BAdd(attention_calculateFLOPs(
                              [d_model |-> d, num_heads |-> probe.params.num_heads],
                              probe.a1),
                            Prod(<<d_ff, d, 4, S>>))
  /\ (IsCall("calculateFLOPs") /\ probe.type = "attention" /\ probe.a1 # << >>) =>
       result = AttentionFlops(probe.a1[1], probe.params.d_model)

C16_Witness ==
  /\ IsCall("calculateFLOPs")
  /\ probe.type = "transformer"
  /\ probe.params.d_model = 512
  /\ probe.params.d_ff = 2048
  /\ probe.a1 = <<512>>
  /\ result = <<928, 660, 489, 3>>

\* C17: linear.calculate = input_dim * output_dim + (output_dim if use_bias
\* else 0), and linear.calculateFLOPs = 2 * input_dim * output_dim with or
\* without bias; 512 x 256 with bias has 131328 parameters and 262144 FLOPs.
C17_Linear ==
  /\ (IsCall("calculate") /\ probe.type = "linear") =>
       LET I == probe.params.input_dim
           O == probe.params.output_dim
       IN  /\ result = I * O + (IF probe.params.use_bias THEN O ELSE 0)
           /\ (I = 512 /\ O = 256 /\ probe.params.use_bias) => result = 131328
  /\ (IsCall("calculateFLOPs") /\ probe.type = "linear") =>
       LET I == probe.params.input_dim
           O == probe.params.output_dim
       IN  /\ result = Big(2 * I * O)
           /\ result = linear_calculateFLOPs([probe.params EXCEPT !.use_bias = ~@])
           /\ (I = 512 /\ O = 256) => result = Big(262144)

C17_Witness ==
  /\ IsCall("calculateFLOPs")
  /\ probe.type = "linear"
  /\ probe.params = [input_dim |-> 512, output_dim |-> 256, use_bias |-> TRUE]
  /\ result = Big(262144)

\* C18: conv2d.calculate = in_channels * out_channels * K*K + (out_channels
\* if use_bias else 0), and conv2d.calculateFLOPs(config, inputSize) =
\* 2 * in_channels * out_channels * K*K * inputSize * inputSize; (3, 64, 3,
\* bias) at 224 has 1792 parameters and 173408256 FLOPs.
C18_Conv2d ==
  /\ (IsCall("calculate") /\ probe.type = "conv2d") =>
       LET c == probe.params
       IN  /\ result = c.in_channels * c.out_channels * c.kernel_size * c.kernel_size
                       + (IF c.use_bias THEN c.out_channels ELSE 0)
           /\ c = [in_channels |-> 3, out_channels |-> 64, kernel_size |-> 3,
                   use_bias |-> TRUE] => result = 1792
  /\ (IsCall("calculateFLOPs") /\ probe.type = "conv2d" /\ probe.a1 # << >>) =>
       LET c == probe.params
           n == probe.a1[1]
       IN  /\ result = Prod(<<n, n, c.kernel_size, c.kernel_size, c.out_channels,
                              c.in_channels, 2>>)
           /\ result = conv2d_calculateFLOPs([c EXCEPT !.use_bias = ~@], probe.a1)
           /\ (c = [in_channels |-> 3, out_channels |-> 64, kernel_size |-> 3,
                    use_bias |-> TRUE] /\ n = 224) => result = Big(173408256)

C18_Witness ==
  /\ IsCall("calculate")
  /\ probe.type = "conv2d"
  /\ probe.params = [in_channels |-> 3, out_channels |-> 64, kernel_size |-> 3,
                     use_bias |-> TRUE]
  /\ result = 1792

\* C19: batchnorm.calculate and layernorm.calculate are 2 * F;
\* batchnorm.calculateFLOPs(config, batch, spatial) = F * batch * spatial * 4
\* and layernorm.calculateFLOPs(config, batch, seqLen) = F * batch * seqLen * 5.
C19_Normalization ==
  /\ (IsCall("calculate") /\ probe.type = "batchnorm") =>
       result = 2 * probe.params.num_features
  /\ (IsCall("calculate") /\ probe.type = "layernorm") =>
       result = 2 * probe.params.normalized_shape
  /\ (IsCall("calculateFLOPs") /\ probe.type = "batchnorm"
      /\ probe.a1 # << >> /\ probe.a2 # << >>) =>
       result = Prod(<<4, probe.a2[1], probe.a1[1], probe.params.num_features>>)
  /\ (IsCall("calculateFLOPs") /\ probe.type = "layernorm"
      /\ probe.a1 # << >> /\ probe.a2 # << >>) =>
       result = Prod(<<5, probe.a2[1], probe.a1[1], probe.params.normalized_shape>>)

C19_Witness ==
  /\ IsCall("calculateFLOPs")
  /\ probe.type = "batchnorm"
  /\ probe.params.num_features = 128
  /\ probe.a1 = <<32>>
  /\ probe.a2 = <<49>>
  /\ result = Big(128 * 32 * 49 * 4)

\* q is floor(n / k)
IsQuotient(q, n, k) == q * k <= n /\ n < (q + 1) * k

\* C20: maxpool2d and avgpool2d have calculate = 0 for every configuration,
\* calculateFLOPs(config, channels, inputSize) = channels *
\* floor(inputSize / kernel_size)^2 * kernel_size^2, and for identical
\* arguments the two kinds have equal FLOPs.
C20_Pooling ==
  /\ (IsCall("calculate") /\ probe.type \in {"maxpool2d", "avgpool2d"}) => result = 0
  /\ (IsCall("calculateFLOPs") /\ probe.type \in {"maxpool2d", "avgpool2d"}) =>
       /\ maxpool2d_calculateFLOPs(probe.params, probe.a1, probe.a2)
            = avgpool2d_calculateFLOPs(probe.params, probe.a1, probe.a2)
       /\ (probe.a1 # << >> /\ probe.a2 # << >>) =>
            LET k == probe.params.kernel_size
            IN  \E q \in 0..probe.a2[1] :
                  /\ IsQuotient(q, probe.a2[1], k)
                  /\ result = Prod(<<k, k, q, q, probe.a1[1]>>)

C20_Witness ==
  /\ IsCall("calculateFLOPs")
  /\ probe.type = "avgpool2d"
  /\ probe.params.kernel_size = 3
  /\ probe.a1 = <<64>>
  /\ probe.a2 = <<7>>
  /\ result = Big(64 * 2 * 2 * 9)

(***************************************************************************)
(* The kinds without arithmetic (checked under SpecRegistry).              *)
(***************************************************************************)
Parameterless == {"dropout", "relu", "softmax"}

\* C21: embedding.calculate = vocab_size * embedding_dim and
\* embedding.calculateFLOPs = 0; dropout, relu and softmax have calculate = 0
\* and calculateFLOPs = 0 for every configuration, whatever the dropout rate,
\* and also when they are called with no arguments.
C21_LookupAndParameterless ==
  /\ (IsCall("calculate") /\ probe.type = "embedding") =>
       result = probe.params.vocab_size * probe.params.embedding_dim
  /\ (IsCall("calculateFLOPs") /\ probe.type = "embedding") => result = Big(0)
  /\ (IsCall("calculateFLOPs()") /\ probe.type = "embedding") => result = Big(0)
  /\ (IsCall("calculate") /\ probe.type \in Parameterless) => result = 0
  /\ (IsCall("calculateFLOPs") /\ probe.type \in Parameterless) => result = Big(0)
  /\ (IsCall("calculate()") /\ probe.type \in Parameterless) => result = 0
  /\ (IsCall("calculateFLOPs()") /\ probe.type \in Parameterless) => result = Big(0)

C21_Witness ==
  /\ IsCall("calculateFLOPs()")
  /\ probe.type = "dropout"
  /\ result = Big(0)

(***************************************************************************)
(* Properties of code generation (checked under SpecCodegen).              *)
(***************************************************************************)
SameShape(a, b) == a.type = b.type /\ a.params = b.params

\* the instance of the generated model that has the identity
Member(id) == probe.layers[PositionOf(probe.layers, id)]

\* C22: the grouping pass partitions the layer sequence into maximal runs:
\* the members of a group are consecutive and have the group's kind and a
\* configuration equal to the group's, two adjacent groups differ in kind or
\* in configuration, and two layers of one kind with different configurations
\* are never in the same group.
C22_MaximalRuns ==
  IsCall("generateCode") =>
    LET groups == result.groups
    IN  /\ \A g \in 1..Len(groups) :
             /\ groups[g].count >= 1
             /\ Len(groups[g].members) = groups[g].count
             /\ \A k \in 1..groups[g].count :
                  /\ SameShape(Member(groups[g].members[k]), groups[g])
                  /\ PositionOf(probe.layers, groups[g].members[k])
                       = PositionOf(probe.layers, groups[g].members[1]) + k - 1
             /\ \A k, l \in 1..groups[g].count :
                  Member(groups[g].members[k]).type = Member(groups[g].members[l]).type
                    => Member(groups[g].members[k]).params
                         = Member(groups[g].members[l]).params
        /\ \A g \in 1..(Len(groups) - 1) : ~SameShape(groups[g], groups[g + 1])
        /\ \A p \in 1..Len(probe.layers) :
             Cardinality({gk \in {<<g, k>> : g \in 1..Len(groups), k \in 1..MaxCodeLayers + 1} :
                            /\ gk[2] <= groups[gk[1]].count
                            /\ groups[gk[1]].members[gk[2]] = probe.layers[p].id}) = 1

C22_Witness ==
  /\ IsCall("generateCode")
  /\ Len(probe.layers) = 3
  /\ probe.layers[1].type = "transformer"
  /\ probe.layers[2].type = "transformer"
  /\ probe.layers[3].type = "transformer"
  /\ probe.layers[1].params = probe.layers[2].params
  /\ probe.layers[3].params.d_model = 256
  /\ probe.layers[1].params.d_model = 512
  /\ Len(result.groups) = 2
  /\ result.groups[1].count = 2

\* the members of the groups, group after group, as instances
RECURSIVE Expand(_)
Expand(groups) ==
  IF groups = << >> THEN << >>
  ELSE [k \in 1..Head(groups).count |->
          [id |-> Head(groups).members[k], type |-> Head(groups).type,
           params |-> Head(groups).params]]
       \o Expand(Tail(groups))

RECURSIVE CountSum(_)
CountSum(groups) ==
  IF groups = << >> THEN 0 ELSE Head(groups).count + CountSum(Tail(groups))

\* C23: grouping is order-preserving and idempotent: the members of the
\* groups, concatenated in group order, are the original layer sequence (no
\* layer lost, duplicated or reordered; the member counts sum to its length),
\* and grouping that expansion again gives the same group sequence.
C23_GroupingRoundTrip ==
  IsCall("generateCode") =>
    /\ Expand(result.groups) = probe.layers
    /\ CountSum(result.groups) = Len(probe.layers)
    /\ group(Expand(result.groups)) = result.groups

C23_Witness ==
  /\ IsCall("generateCode")
  /\ Len(probe.layers) = 3
  /\ probe.layers[1].type = "linear"
  /\ probe.layers[2].type = "linear"
  /\ probe.layers[3].type = "dropout"
  /\ Len(result.groups) = 2
  /\ result.groups[1].members = <<1, 2>>
  /\ result.groups[2].members = <<3>>

\* C24: a group of more than one member is emitted as one repeated-block
\* construct carrying the member count, a group of one member as an ordinary
\* single declaration; three consecutive identical transformer blocks are one
\* group of count 3, for which the PyTorch generator emits the single
\* construct TransformerEncoder(num_layers=3).
C24_RepeatedBlocks ==
  IsCall("generateCode") =>
    /\ Len(result.code) = Len(result.groups)
    /\ \A g \in 1..Len(result.groups) :
         IF result.groups[g].count > 1
         THEN /\ result.code[g].construct = "repeated"
              /\ result.code[g].block[Len(result.code[g].block)] = result.groups[g].count
         ELSE result.code[g].construct = "single"
    /\ (/\ Len(probe.layers) = 3
        /\ \A k \in 1..3 : /\ probe.layers[k].type = "transformer"
                           /\ probe.layers[k].params = probe.layers[1].params)
         => /\ Len(result.groups) = 1
            /\ result.groups[1].count = 3
            /\ probe.framework = "pytorch" =>
                 /\ Len(result.code) = 1
                 /\ result.code[1].block = <<"TransformerEncoder", "num_layers", 3>>

C24_Witness ==
  /\ IsCall("generateCode")
  /\ probe.framework = "pytorch"
  /\ Len(probe.layers) = 3
  /\ \A k \in 1..3 : probe.layers[k].type = "transformer" /\ probe.layers[k].params.d_model = 512
  /\ result.code = <<[name |-> <<"transformer", 1>>, construct |-> "repeated",
                      block |-> <<"TransformerEncoder", "num_layers", 3>>]>>

SpatialKinds == {"conv2d", "maxpool2d", "avgpool2d"}

FlatKinds == {"embedding", "linear", "lstm", "gru", "attention"}

\* the rank fixed by the nearest rank-fixing layer before position p
NearestFixedRank(layers, p) ==
  LET fixing == {k \in 1..(p - 1) : layers[k].type \in SpatialKinds \cup FlatKinds}
  IN  IF fixing = {} THEN "flat"
      ELSE LET nearest == CHOOSE k \in fixing : \A l \in fixing : l <= k
           IN  IF layers[nearest].type \in SpatialKinds THEN "spatial" ELSE "flat"

\* C25: the rank of a normalization layer is the one fixed by the nearest
\* preceding rank-fixing layer of the original ungrouped sequence: spatial
\* after a convolutional or pooling layer, flat after an embedding, linear,
\* recurrent or attention layer, flat when no preceding layer fixes a rank;
\* layers that fix no rank are skipped.
C25_NormalizationRank ==
  IsCall("generateCode") =>
    \A u \in 1..Len(result.units) :
      IF result.units[u].group.type \in {"batchnorm", "layernorm"}
      THEN \A k \in 1..result.units[u].group.count :
             result.units[u].rank
               = NearestFixedRank(probe.layers,
                                  PositionOf(probe.layers, result.units[u].group.members[k]))
      ELSE result.units[u].rank = "none"

C25_Witness ==
  /\ IsCall("generateCode")
  /\ Len(probe.layers) = 3
  /\ probe.layers[1].type = "conv2d"
  /\ probe.layers[2].type = "dropout"
  /\ probe.layers[3].type = "batchnorm"
  /\ result.units[3].rank = "spatial"

(***************************************************************************)
(* The formatters (checked under SpecRegistry).                            *)
(***************************************************************************)
Kilo == <<0, 1>>

Mega == <<0, 0, 1>>

Giga == <<0, 0, 0, 1>>

Tera == <<0, 0, 0, 0, 1>>

\* h hundredths is num / unit to two decimals: |h / 100 - num / unit| <= 0.005
TwoDecimals(h, num, unit) ==
  /\ BLeq(BScale(unit, 2 * h), BAdd(BScale(num, 200), unit))
  /\ BLeq(BScale(num, 200), BAdd(BScale(unit, 2 * h), unit))

InUnit(num, unit, suffix) ==
  /\ result.suffix = suffix
  /\ result.decimals = 2
  /\ TwoDecimals(result.digits, num, unit)

Plain(num, suffix) ==
  /\ result.suffix = suffix
  /\ result.decimals = 0
  /\ Big(result.digits) = num

\* C26: formatNumber takes the suffix T (value / 10^12) when num >= 10^12, G
\* when num >= 10^9, M when num >= 10^6, K when num >= 10^3, each with two
\* decimals, and the plain integer string below 10^3; formatBytes does the
\* same with GB / MB / KB at 10^9 / 10^6 / 10^3 and 'n B' below 10^3; a value
\* exactly on a threshold takes the larger unit.
C26_UnitThresholds ==
  /\ IsCall("formatNumber") =>
       LET num == probe.num
       IN  /\ IF BLeq(Tera, num) THEN InUnit(num, Tera, "T")
              ELSE IF BLeq(Giga, num) THEN InUnit(num, Giga, "G")
              ELSE IF BLeq(Mega, num) THEN InUnit(num, Mega, "M")
              ELSE IF BLeq(Kilo, num) THEN InUnit(num, Kilo, "K")
              ELSE Plain(num, "")
           /\ num = Tera => result = [digits |-> 100, decimals |-> 2, suffix |-> "T"]
           /\ num = Giga => result = [digits |-> 100, decimals |-> 2, suffix |-> "G"]
           /\ num = Mega => result = [digits |-> 100, decimals |-> 2, suffix |-> "M"]
           /\ num = Kilo => result = [digits |-> 100, decimals |-> 2, suffix |-> "K"]
  /\ IsCall("formatBytes") =>
       LET num == probe.num
       IN  /\ IF BLeq(Giga, num) THEN InUnit(num, Giga, " GB")
              ELSE IF BLeq(Mega, num) THEN InUnit(num, Mega, " MB")
              ELSE IF BLeq(Kilo, num) THEN InUnit(num, Kilo, " KB")
              ELSE Plain(num, " B")
           /\ num = Giga => result = [digits |-> 100, decimals |-> 2, suffix |-> " GB"]
           /\ num = Mega => result = [digits |-> 100, decimals |-> 2, suffix |-> " MB"]
           /\ num = Kilo => result = [digits |-> 100, decimals |-> 2, suffix |-> " KB"]

C26_Witness ==
  /\ IsCall("formatNumber")
  /\ probe.num = Mega
  /\ result = [digits |-> 100, decimals |-> 2, suffix |-> "M"]

(***************************************************************************)
(* Interleavings of the list's handlers (checked under Spec).              *)
(***************************************************************************)
NoUndefinedEntry == \A i \in 1..Len(modelLayers) : ~IsUndefined(modelLayers[i])

DraggedIndexValid == draggedIndex # << >> => draggedIndex[1] < Len(modelLayers)

\* C27 as stated: under every interleaving of addLayer, deleteLayer,
\* handleLayerDragStart, handleLayerDragOver and handleLayerDragEnd the model
\* has no undefined entry, a drag step neither loses nor duplicates an
\* instance, and a non-null draggedIndex is a valid index of the current
\* model.
C27_DragInterleavings ==
  /\ [](NoUndefinedEntry /\ DraggedIndexValid)
  /\ [][(\E j \in 0..(Len(modelLayers) - 1) : handleLayerDragOver(j)) =>
          /\ Len(modelLayers') = Len(modelLayers)
          /\ \A k \in 1..Len(modelLayers) :
               Count(modelLayers', modelLayers[k]) = Count(modelLayers, modelLayers[k])]_vars

(***************************************************************************)
(* Frame of the three list operations (checked under Spec).                *)
(***************************************************************************)
\* instance b is instance a with at most the value of one key changed
OneKeyChanged(a, b, key) ==
  /\ b.id = a.id
  /\ b.type = a.type
  /\ DOMAIN b.params = DOMAIN a.params
  /\ \A k \in DOMAIN a.params : k # key => b.params[k] = a.params[k]

AppendsOneDefault ==
  \E type \in Palette, id \in Ids :
    modelLayers' = Append(modelLayers, [id |-> id, type |-> type, params |-> defaultParams(type)])

RemovesOne(id) ==
  \E i \in 1..Len(modelLayers) :
    /\ modelLayers[i].id = id
    /\ modelLayers' = RemoveAt(modelLayers, i - 1)

EditsOne(id, key) ==
  /\ Len(modelLayers') = Len(modelLayers)
  /\ \E i \in 1..Len(modelLayers) :
       /\ modelLayers[i].id = id
       /\ OneKeyChanged(modelLayers[i], modelLayers'[i], key)
       /\ \A m \in 1..Len(modelLayers) : m # i => modelLayers'[m] = modelLayers[m]

\* C28 as stated: addLayer appends exactly one instance holding the kind's
\* original defaultParams and leaves the existing instances unchanged;
\* deleteLayer(id) removes exactly one instance, the one with that id, and
\* keeps the others in their order; updateLayerParam(id, key, v) changes only
\* that key of that one instance and no other instance.
C28_FrameEffects ==
  [][/\ (\E type \in Palette, id \in Ids : addLayer(type, id)) => AppendsOneDefault
     /\ \A id \in Ids :
          (deleteLayer(id) /\ \E i \in 1..Len(modelLayers) : modelLayers[i].id = id)
            => RemovesOne(id)
     /\ edits' # edits =>
          \E id \in Ids : \E key \in UNION {SchemaKeys(type) : type \in KindSet} :
            EditsOne(id, key)]_vars
(***************************************************************************)
(* The totals under reorder and delete (checked under Spec).               *)
(***************************************************************************)
TotalsUnchanged ==
  /\ totalParams' = totalParams
  /\ totalFLOPs' = totalFLOPs
  /\ memoryEstimate' = memoryEstimate

\* C30 as stated: a reorder (a dragover step) leaves totalParams, totalFLOPs
\* and the memory estimate unchanged, and deleting a layer lowers totalParams
\* by exactly the calculate() value of that layer.
C30_TotalsOfMultiset ==
  [][/\ (\E j \in 0..(Len(modelLayers) - 1) : handleLayerDragOver(j)) => TotalsUnchanged
     /\ \A i \in 1..Len(modelLayers) :
          (~crashed /\ deleteLayer(modelLayers[i].id))
            => totalParams' =
                 totalParams - calculate(modelLayers[i].type, modelLayers[i].params)]_vars

(***************************************************************************)
(* Termination and attempts of the image export (checked under SpecExport).*)
(***************************************************************************)
IsExport == probe.fn = "exportToImage"

Returned == result # << >>

ExportBounded ==
  IsExport =>
    /\ Returned => result[1] \in BOOLEAN
    /\ (probe.started /\ probe.element = "null") =>
         (probe.captures = 0 /\ result = <<FALSE>>)
    /\ probe.captures <= 2
    /\ probe.captures <= probe.thrown + 1
    /\ probe.thrown = 2 => result = <<FALSE>>
    /\ (probe.caller = "handleExportImage" /\ ~validateExportElement(probe.element).valid) =>
         (~probe.started /\ probe.captures = 0 /\ ~Returned)

\* C29: exportToImage always terminates with a boolean result; with no
\* element it returns false without a capture attempt; otherwise it makes at
\* most 2 capture attempts, each attempt after the first follows an attempt
\* that threw, and it returns false once the retry has also thrown;
\* handleExportImage never starts an export for an element that
\* validateExportElement reports invalid.
C29_ExportTerminates ==
  /\ []ExportBounded
  /\ (IsExport /\ probe.started) ~> Returned

\* the handler's export whose first attempt and whose retry both threw
C29_Witness ==
  /\ IsExport
  /\ probe.caller = "handleExportImage"
  /\ probe.pc = "done"
  /\ probe.captures = 2
  /\ probe.thrown = 2
  /\ result = <<FALSE>>
  /\ probe.alerts = <<showExportError("unknown")>>

====
